---- MODULE Spec2Model ----
(***************************************************************************)
(* A model of shepherd-datalib's streaming reader (shepherd_core/reader.py *)
(* BaseReader) over a store: the HDF5 container with its root attributes,  *)
(* the "data" group, and the three channel datasets time, voltage,         *)
(* current.                                                                *)
(*                                                                         *)
(* Numbers.  TLC has integers only, so every real quantity is held in a    *)
(* fixed unit as an integer or as an exact fraction [num, den]:            *)
(*   - SI time is held in nanoseconds, so the default time gain 1e-9 s per *)
(*     raw tick is the integer 1 and round(x, 6) of a value in seconds is  *)
(*     rounding to a whole number of microseconds;                         *)
(*   - SI voltage and current are held in the unit of their gain;          *)
(*   - sample_interval_s = 1.0 / samplerate_sps is the fraction            *)
(*     1 / samplerate_sps.                                                 *)
(* Floating-point rounding error is not modelled.                          *)
(***************************************************************************)
EXTENDS Integers, Sequences, FiniteSets, TLC

VARIABLES
    store,   \* the container on disk
    reader,  \* the BaseReader object: its fields after __init__
    log,     \* the records the last operation handed to self._logger
    ret,     \* the last operation called on the reader, its arguments and its result
    repair   \* the repair script: where it stands, its local variables, its writer

vars == <<store, reader, log, ret, repair>>

(***************************************************************************)
(* Bounds of the model.                                                    *)
(***************************************************************************)
\* reader.py:35 has samples_per_buffer = 10_000; the model scales a buffer down.
samples_per_buffer == 2
\* reader.py:59 has max_elements = 40 * samplerate_sps = 4_000_000 samples, which is
\* 400 whole buffers; the model keeps a chunk a whole number of buffers.
BuffersPerChunk == 2
\* the longest recording of the model, in buffers
MaxBuffers == 3
\* how many defects one store of the validation family carries at most
MaxDefects == 2
\* the longest channel of the statistics family, in samples
MaxLen == 5

(***************************************************************************)
(* Program constants.                                                      *)
(***************************************************************************)
samplerate_sps_default == 100000
NanosPerSecond == 1000000000
max_elements == BuffersPerChunk * samples_per_buffer

mode_dtype_dict ==
    [harvester |-> {"ivsample", "ivcurve", "isc_voc"},
     emulator  |-> {"ivsample"}]

(***************************************************************************)
(* Helpers.                                                                *)
(***************************************************************************)
Min(a, b) == IF a <= b THEN a ELSE b
Max(a, b) == IF a >= b THEN a ELSE b

\* f without the key k
Drop(f, k) == [x \in (DOMAIN f) \ {k} |-> f[x]]

\* Python's round() of the fraction num/den (den > 0) to an integer: to the nearest,
\* a tie to the even neighbour.
RoundHalfEven(num, den) ==
    LET q == num \div den
        r == num % den
    IN  IF 2 * r < den THEN q
        ELSE IF 2 * r > den THEN q + 1
        ELSE IF q % 2 = 0 THEN q ELSE q + 1

\* dset[a:b] of h5py / numpy for 0 <= a, 0 <= b: the entries with 0-based index in
\* [a, min(b, len)); empty when a is past the end.
Slice(seq, a, b) == SubSeq(seq, a + 1, Min(b, Len(seq)))

\* dset[a:b:step]: the entries with 0-based index a, a+step, ... below min(b, len).
RECURSIVE Strided(_, _, _, _)
Strided(seq, a, b, step) ==
    IF a >= Min(b, Len(seq)) THEN <<>>
    ELSE <<seq[a + 1]>> \o Strided(seq, a + step, b, step)

\* range(a, b, step) as a sequence
RECURSIVE Range(_, _, _)
Range(a, b, step) == IF a >= b THEN <<>> ELSE <<a>> \o Range(a + step, b, step)

RECURSIVE SeqSum(_)
SeqSum(s) == IF s = <<>> THEN 0 ELSE Head(s) + SeqSum(Tail(s))

SeqToSet(s) == {s[i] : i \in 1..Len(s)}

(***************************************************************************)
(* CalibrationPair (data_models/base/calibration.py).                      *)
(***************************************************************************)
\* raw_to_si on one value
raw_to_si(cal, raw) == Max(raw * cal.gain + cal.offset, 0)

\* raw_to_si on an array: elementwise, negatives set to 0
raw_to_si_arr(cal, raws) == [i \in 1..Len(raws) |-> raw_to_si(cal, raws[i])]

\* gain: PositiveFloat -- pydantic rejects the pair otherwise
CalibrationPairValid(cal) == cal.gain > 0

(***************************************************************************)
(* The store.  attrs, data_attrs and each dataset's attrs are functions    *)
(* whose domain is the set of attributes present; dsets is a function      *)
(* whose domain is the set of datasets present in the "data" group.        *)
(* compression_opts = -1 stands for None.                                  *)
(***************************************************************************)
MkDset(data, gain, offset) ==
    [attrs |-> [gain |-> gain, offset |-> offset],
     data |-> data,
     compression |-> "None",
     compression_opts |-> -1]

MkStore(mode, dtype, ws, tdata, vdata, cdata, cal) ==
    [exists |-> TRUE,
     groups |-> {"data"},
     attrs |-> [mode |-> mode, hostname |-> "sheep0"],
     data_attrs |-> [datatype |-> dtype, window_samples |-> ws],
     dsets |-> [time    |-> MkDset(tdata, cal.time.gain, cal.time.offset),
                voltage |-> MkDset(vdata, cal.voltage.gain, cal.voltage.offset),
                current |-> MkDset(cdata, cal.current.gain, cal.current.offset)]]

\* CalibrationSeries' defaults: voltage in 3 nV steps, current in 250 pA steps,
\* time in nanoseconds (SI voltage held in nV, current in pA, time in ns)
CalibrationSeriesDefault ==
    [voltage |-> [gain |-> 3, offset |-> 0],
     current |-> [gain |-> 250, offset |-> 0],
     time    |-> [gain |-> 1, offset |-> 0]]

\* a gapless time channel of n samples, one every interval_ns raw ticks
GaplessTime(n, interval_ns) == [i \in 1..n |-> (i - 1) * interval_ns]

\* channel contents that differ from index to index
RampData(n, first, step) == [i \in 1..n |-> first + (i - 1) * step]

(***************************************************************************)
(* The accessors of BaseReader.                                            *)
(***************************************************************************)
get_window_samples(s) ==
    IF "window_samples" \in DOMAIN s.data_attrs THEN s.data_attrs["window_samples"] ELSE 0

get_mode(s) == IF "mode" \in DOMAIN s.attrs THEN s.attrs["mode"] ELSE ""

get_hostname(s) == IF "hostname" \in DOMAIN s.attrs THEN s.attrs["hostname"] ELSE "unknown"

get_datatype(s) == IF "datatype" \in DOMAIN s.data_attrs THEN s.data_attrs["datatype"] ELSE ""

ds_time(s) == s.dsets["time"].data
ds_voltage(s) == s.dsets["voltage"].data
ds_current(s) == s.dsets["current"].data

(***************************************************************************)
(* is_valid: the hard criteria return False at the first one that fails,   *)
(* the soft criteria each log a warning and the call returns True.         *)
(***************************************************************************)
\* a log record: its level, its message, and the message's arguments as a tuple
LogError(msg, arg) == [level |-> "error", msg |-> msg, arg |-> arg]
LogWarning(msg, arg) == [level |-> "warning", msg |-> msg, arg |-> arg]
LogInfo(msg, arg) == [level |-> "info", msg |-> msg, arg |-> arg]

\* for dset in [time, current, voltage]: for attr in [gain, offset]: the first
\* dataset or attribute that is missing, as the error it logs; <<>> when none is
RECURSIVE DatasetCheck(_, _)
DatasetCheck(s, dsetnames) ==
    IF dsetnames = <<>> THEN <<>>
    ELSE LET dset == Head(dsetnames)
         IN  IF dset \notin DOMAIN s.dsets
                 THEN <<LogError("dataset not found", <<dset>>)>>
             ELSE IF "gain" \notin DOMAIN s.dsets[dset].attrs
                 THEN <<LogError("attribute not found in dataset", <<"gain", dset>>)>>
             ELSE IF "offset" \notin DOMAIN s.dsets[dset].attrs
                 THEN <<LogError("attribute not found in dataset", <<"offset", dset>>)>>
             ELSE DatasetCheck(s, Tail(dsetnames))

\* is_valid's data-group loop with window_samples left out of the list
DataAttrCheck_datatype_only(s) ==
    IF "datatype" \notin DOMAIN s.data_attrs
        THEN <<LogError("attribute not found in data-group", <<"datatype">>)>>
    ELSE <<>>

\* for attr in [window_samples, datatype]: the first one missing in the data group
DataAttrCheck(s) ==
    IF "window_samples" \notin DOMAIN s.data_attrs
        THEN <<LogError("attribute not found in data-group", <<"window_samples">>)>>
    ELSE IF "datatype" \notin DOMAIN s.data_attrs
        THEN <<LogError("attribute not found in data-group", <<"datatype">>)>>
    ELSE <<>>

\* the hard criteria, in the order of the code: the error logged by the first that
\* fails, <<>> when all pass
HardCriteria(s) ==
    IF "data" \notin s.groups
        THEN <<LogError("root data-group not found", <<"data">>)>>
    ELSE IF "mode" \notin DOMAIN s.attrs
        THEN <<LogError("attribute not found in file", <<"mode">>)>>
    ELSE IF s.attrs["mode"] \notin DOMAIN mode_dtype_dict
        THEN <<LogError("unsupported mode", <<"mode">>)>>
    ELSE IF DataAttrCheck(s) # <<>>
        THEN DataAttrCheck(s)
    ELSE IF DatasetCheck(s, <<"time", "current", "voltage">>) # <<>>
        THEN DatasetCheck(s, <<"time", "current", "voltage">>)
    ELSE IF get_datatype(s) \notin mode_dtype_dict[get_mode(s)]
        THEN <<LogError("unsupported type for mode", <<get_datatype(s), get_mode(s)>>)>>
    ELSE IF get_datatype(s) = "ivcurve" /\ get_window_samples(s) < 1
        THEN <<LogError("window size / samples is < 1", <<"ivcurve">>)>>
    ELSE <<>>

\* the warnings of "for dset in [current, voltage]: different size than time"
SizeWarnings(s) ==
    LET ds_time_size == Len(ds_time(s))
        one(dset) == IF Len(s.dsets[dset].data) # ds_time_size
                         THEN <<LogWarning("dataset has different size", <<dset>>)>>
                         ELSE <<>>
    IN  one("current") \o one("voltage")

\* the compression check looking at the time dataset only
CompressionWarnings_time_only(s) ==
    LET comp == s.dsets["time"].compression
        opts == s.dsets["time"].compression_opts
    IN  (IF comp \notin {"None", "gzip", "lzf"}
             THEN <<LogWarning("unsupported compression found", <<"time">>)>>
             ELSE <<>>)
        \o
        (IF comp = "gzip" /\ opts # -1 /\ opts > 1
             THEN <<LogWarning("gzip compression is too high", <<"time">>)>>
             ELSE <<>>)

\* the warnings of "check compression", for dset in [time, current, voltage]
CompressionWarnings(s) ==
    LET one(dset) ==
            LET comp == s.dsets[dset].compression
                opts == s.dsets[dset].compression_opts
            IN  (IF comp \notin {"None", "gzip", "lzf"}
                     THEN <<LogWarning("unsupported compression found", <<dset>>)>>
                     ELSE <<>>)
                \o
                (IF comp = "gzip" /\ opts # -1 /\ opts > 1
                     THEN <<LogWarning("gzip compression is too high", <<dset>>)>>
                     ELSE <<>>)
    IN  one("time") \o one("current") \o one("voltage")

\* the soft criteria: every warning, in the order of the code
SoftCriteria(s) ==
    (IF get_datatype(s) # "ivcurve" /\ get_window_samples(s) > 0
         THEN <<LogWarning("window size / samples is > 0", <<get_datatype(s)>>)>>
         ELSE <<>>)
    \o SizeWarnings(s)
    \o (IF Len(ds_time(s)) % samples_per_buffer # 0
            THEN <<LogWarning("datasets are not aligned with buffer-size", <<"time">>)>>
            ELSE <<>>)
    \o CompressionWarnings(s)
    \o (IF get_hostname(s) = "unknown"
            THEN <<LogWarning("Hostname was not set", <<"hostname">>)>>
            ELSE <<>>)

\* is_valid(): the value returned and the records logged
is_valid(s) ==
    IF HardCriteria(s) # <<>>
        THEN [ok |-> FALSE, log |-> HardCriteria(s)]
        ELSE [ok |-> TRUE, log |-> SoftCriteria(s)]

(***************************************************************************)
(* Open: BaseReader.__init__ and _refresh_file_stats.                      *)
(***************************************************************************)
\* the fields __init__ sets before it opens the file
ReaderInit ==
    [state |-> "init",
     error |-> "none",
     samplerate_sps |-> samplerate_sps_default,
     sample_interval_ns |-> NanosPerSecond \div samplerate_sps_default,
     runtime_ds |-> 0,           \* runtime_s in tenths of a second
     file_size |-> 0,
     data_rate |-> [num |-> 0, den |-> 1],
     cal |-> CalibrationSeriesDefault]

ReaderFailed(error) == [ReaderInit EXCEPT !.state = "failed", !.error = error]

\* self._file_path.stat().st_size: the bytes of the three channels (time is stored
\* as 8-byte, voltage and current as 4-byte integers); container overhead left out
FileSize(s) == 8 * Len(ds_time(s)) + 4 * Len(ds_voltage(s)) + 4 * Len(ds_current(s))

\* cal_dict[ds][param] = self.h5file["data"][ds].attrs[param] for every channel and
\* parameter: whether every one of these reads finds its attribute
CalAttrsPresent(s) ==
    \A ds \in {"current", "voltage", "time"} :
        \A param \in {"gain", "offset"} : param \in DOMAIN s.dsets[ds].attrs

\* CalibrationSeries(**cal_dict)
CalOf(s) ==
    [ds \in {"voltage", "current", "time"} |->
        [gain |-> s.dsets[ds].attrs["gain"], offset |-> s.dsets[ds].attrs["offset"]]]

\* _refresh_file_stats, on the reader r with its cal set; the time channel is stored
\* unsigned, so a decreasing first pair wraps to a difference above 10**9 and the
\* rate is max(0, 1); the model keeps the signed difference in sample_interval_ns
refresh_file_stats(s, r) ==
    LET n == Len(ds_time(s))
        interval == IF n > 1 THEN ds_time(s)[2] - ds_time(s)[1] ELSE r.sample_interval_ns
        rate == IF n > 1
                    THEN (IF interval > 0 THEN Max(NanosPerSecond \div interval, 1) ELSE 1)
                    ELSE r.samplerate_sps
        runtime == RoundHalfEven(10 * n, rate)
    IN  IF n > 1 /\ interval = 0
            THEN ReaderFailed("ZeroDivisionError")
            ELSE [r EXCEPT !.sample_interval_ns = interval,
                           !.samplerate_sps = rate,
                           !.runtime_ds = runtime,
                           !.file_size = FileSize(s),
                           !.data_rate = IF runtime > 0
                                             THEN [num |-> 10 * FileSize(s), den |-> runtime]
                                             ELSE [num |-> 0, den |-> 1]]

\* what __init__ logs after is_valid()
OpenLog(s) ==
    is_valid(s).log
    \o (IF is_valid(s).ok
            THEN <<LogInfo("File is available now", <<>>)>>
            ELSE <<LogError("File is faulty! Will try to open", <<>>)>>)

\* __init__ from the lookup of the three datasets on: the reader it leaves, and
\* what it logged
OpenFile(s) ==
    IF "data" \notin s.groups \/ {"time", "voltage", "current"} \ DOMAIN s.dsets # {}
        THEN [reader |-> ReaderFailed("KeyError"), log |-> OpenLog(s)]
    ELSE IF ~CalAttrsPresent(s)
        THEN [reader |-> ReaderFailed("KeyError"), log |-> OpenLog(s)]
    ELSE IF \E ds \in DOMAIN CalOf(s) : ~CalibrationPairValid(CalOf(s)[ds])
        THEN [reader |-> ReaderFailed("ValidationError"), log |-> OpenLog(s)]
    ELSE LET r == refresh_file_stats(s, [ReaderInit EXCEPT !.state = "open", !.cal = CalOf(s)])
         IN  [reader |-> r,
              log |-> IF r.state = "open"
                          THEN OpenLog(s) \o <<LogInfo("Reading data from", <<get_mode(s)>>)>>
                          ELSE OpenLog(s)]

\* __init__ raising when is_valid() returns False, instead of logging and going on
OpenResult_rejecting(s) ==
    IF ~s.exists
        THEN [reader |-> ReaderFailed("FileNotFoundError"), log |-> <<>>]
    ELSE IF ~is_valid(s).ok
        THEN [reader |-> ReaderFailed("ValueError"), log |-> OpenLog(s)]
    ELSE OpenFile(s)

\* __init__(file_path): the reader it leaves, and what it logged
OpenResult(s) ==
    IF ~s.exists
        THEN [reader |-> ReaderFailed("FileNotFoundError"), log |-> <<>>]
        ELSE OpenFile(s)

(***************************************************************************)
(* read_buffers.                                                           *)
(***************************************************************************)
\* the default end_n rounded up, so that a trailing partial buffer is read too
default_end_n_ceil(s) ==
    (Len(ds_time(s)) + samples_per_buffer - 1) \div samples_per_buffer

\* end_n when the caller gives none
default_end_n(s) == Len(ds_time(s)) \div samples_per_buffer

\* the triple yielded for buffer i
buffer_triple(s, cal, i, is_raw) ==
    LET idx_start == i * samples_per_buffer
        idx_end == idx_start + samples_per_buffer
    IN  IF is_raw
            THEN <<Slice(ds_time(s), idx_start, idx_end),
                   Slice(ds_voltage(s), idx_start, idx_end),
                   Slice(ds_current(s), idx_start, idx_end)>>
            ELSE <<raw_to_si_arr(cal.time, Slice(ds_time(s), idx_start, idx_end)),
                   raw_to_si_arr(cal.voltage, Slice(ds_voltage(s), idx_start, idx_end)),
                   raw_to_si_arr(cal.current, Slice(ds_current(s), idx_start, idx_end))>>

\* everything the generator yields: one triple for each i in range(start_n, end_n)
RECURSIVE yield_range(_, _, _, _, _)
yield_range(s, cal, i, end_n, is_raw) ==
    IF i >= end_n THEN <<>>
    ELSE <<buffer_triple(s, cal, i, is_raw)>> \o yield_range(s, cal, i + 1, end_n, is_raw)

read_buffers(s, cal, start_n, end_given, end_n, is_raw) ==
    yield_range(s, cal, start_n, IF end_given THEN end_n ELSE default_end_n(s), is_raw)

(***************************************************************************)
(* energy.  A numpy product of two 1-d arrays is elementwise when the      *)
(* lengths agree, broadcasts an array of length 1, and raises ValueError   *)
(* otherwise.                                                              *)
(***************************************************************************)
ArrayMul(x, y) ==
    IF Len(x) = Len(y)
        THEN [error |-> "none", val |-> [i \in 1..Len(x) |-> x[i] * y[i]]]
    ELSE IF Len(x) = 1
        THEN [error |-> "none", val |-> [i \in 1..Len(y) |-> x[1] * y[i]]]
    ELSE IF Len(y) = 1
        THEN [error |-> "none", val |-> [i \in 1..Len(x) |-> x[i] * y[1]]]
    ELSE [error |-> "ValueError", val |-> <<>>]

\* _calc_energy, with idx_stop one short of the end of the chunk
calc_energy_short(s, r, idx_start) ==
    LET idx_stop == Min(idx_start + max_elements, Len(ds_time(s))) - 1
        vol_v == raw_to_si_arr(r.cal.voltage, Slice(ds_voltage(s), idx_start, idx_stop))
        cur_a == raw_to_si_arr(r.cal.current, Slice(ds_current(s), idx_start, idx_stop))
        prod == ArrayMul(vol_v, cur_a)
    IN  [error |-> prod.error, num |-> SeqSum(prod.val), den |-> r.samplerate_sps]

\* _calc_energy(idx_start): (vol_v * cur_a).sum() * sample_interval_s, the fraction
\* num / den with den = samplerate_sps
calc_energy(s, r, idx_start) ==
    LET idx_stop == Min(idx_start + max_elements, Len(ds_time(s)))
        vol_v == raw_to_si_arr(r.cal.voltage, Slice(ds_voltage(s), idx_start, idx_stop))
        cur_a == raw_to_si_arr(r.cal.current, Slice(ds_current(s), idx_start, idx_stop))
        prod == ArrayMul(vol_v, cur_a)
    IN  [error |-> prod.error, num |-> SeqSum(prod.val), den |-> r.samplerate_sps]

\* energy(): the sum of the chunks' energies, all fractions over samplerate_sps
energy(s, r) ==
    LET job_iter == Range(0, Len(ds_time(s)), max_elements)
        energy_ws == [i \in 1..Len(job_iter) |-> calc_energy(s, r, job_iter[i])]
    IN  IF \E i \in 1..Len(job_iter) : energy_ws[i].error # "none"
            THEN [error |-> "ValueError", num |-> 0, den |-> 1]
            ELSE [error |-> "none",
                  num |-> SeqSum([i \in 1..Len(job_iter) |-> energy_ws[i].num]),
                  den |-> r.samplerate_sps]

(***************************************************************************)
(* _dset_statistics.  A mean is a fraction [num, den]; np.std needs a      *)
(* square root, so a chunk's std is carried as its variance and the        *)
(* result lists the chunk variances: "std" is the mean of their roots.     *)
(***************************************************************************)
FracAdd(a, b) == [num |-> a.num * b.den + b.num * a.den, den |-> a.den * b.den]
FracEq(a, b) == a.num * b.den = b.num * a.den

RECURSIVE FracSum(_)
FracSum(fs) == IF fs = <<>> THEN [num |-> 0, den |-> 1] ELSE FracAdd(Head(fs), FracSum(Tail(fs)))

SeqMin(xs) == CHOOSE m \in SeqToSet(xs) : \A x \in SeqToSet(xs) : m <= x
SeqMax(xs) == CHOOSE m \in SeqToSet(xs) : \A x \in SeqToSet(xs) : m >= x

\* _calc_statistics(data): [np.mean, np.min, np.max, np.std] of one chunk
calc_statistics(data) ==
    LET n == Len(data)
        sum == SeqSum(data)
        sumsq == SeqSum([i \in 1..n |-> data[i] * data[i]])
    IN  [mean |-> [num |-> sum, den |-> n],
         min |-> SeqMin(data),
         max |-> SeqMax(data),
         var |-> [num |-> n * sumsq - sum * sum, den |-> n * n]]

\* the calibration _dset_statistics takes when the caller gives none
dset_cal(dset) ==
    IF "gain" \in DOMAIN dset.attrs /\ "offset" \in DOMAIN dset.attrs
        THEN [gain |-> dset.attrs["gain"], offset |-> dset.attrs["offset"]]
        ELSE [gain |-> 1, offset |-> 0]

\* _dset_statistics(dset)
dset_statistics(dset) ==
    LET cal == dset_cal(dset)
        si_converted == "gain" \in DOMAIN dset.attrs /\ "offset" \in DOMAIN dset.attrs
        job_iter == Range(0, Len(dset.data), max_elements)
        stats_list == [i \in 1..Len(job_iter) |->
                          calc_statistics(raw_to_si_arr(cal,
                              Slice(dset.data, job_iter[i], job_iter[i] + max_elements)))]
        k == Len(stats_list)
    IN  IF ~CalibrationPairValid(cal)
            THEN [error |-> "ValidationError", empty |-> TRUE]
        ELSE IF k < 1
            THEN [error |-> "none", empty |-> TRUE]
        ELSE LET means == FracSum([i \in 1..k |-> stats_list[i].mean])
             IN  [error |-> "none",
                  empty |-> FALSE,
                  mean |-> [num |-> means.num, den |-> means.den * k],
                  min |-> SeqMin([i \in 1..k |-> stats_list[i].min]),
                  max |-> SeqMax([i \in 1..k |-> stats_list[i].max]),
                  chunk_vars |-> [i \in 1..k |-> stats_list[i].var],
                  si_converted |-> si_converted]

(***************************************************************************)
(* data_timediffs and check_timediffs.                                     *)
(***************************************************************************)
\* round(x, 6) of a time in seconds keeps microseconds; SI time is held in ns
NanosPerMicro == 1000

\* calc_timediffs(idx_start): the unique differences between the first time values
\* of consecutive buffers of one chunk
calc_timediffs(s, idx_start) ==
    LET t == Strided(ds_time(s), idx_start, idx_start + max_elements, samples_per_buffer)
    IN  {t[i + 1] - t[i] : i \in 1..(Len(t) - 1)}

\* data_timediffs(): the unique values round(raw_to_si(j) / samples_per_buffer, 6),
\* in microseconds
data_timediffs(s, r) ==
    LET job_iter == Range(0, Len(ds_time(s)), max_elements)
        diffs_ll == UNION {calc_timediffs(s, job_iter[i]) : i \in 1..Len(job_iter)}
    IN  {RoundHalfEven(raw_to_si(r.cal.time, j), samples_per_buffer * NanosPerMicro) :
            j \in diffs_ll}

\* check_timediffs() that accepts one delta only
check_timediffs_strict(s, r) == Cardinality(data_timediffs(s, r)) = 1

\* check_timediffs()
check_timediffs(s, r) == Cardinality(data_timediffs(s, r)) <= 1

(***************************************************************************)
(* The operations as actions.  ret records the call and what it returned.  *)
(***************************************************************************)
RetNone == [op |-> "none", args |-> <<>>, value |-> <<>>]

\* the repair script before its first run: no pass started, no writer open
RepairIdle ==
    [pc |-> "idle", run |-> 0, writer |-> "closed", fix |-> "none", idx |-> 1,
     ds_time_size |-> 0, mode |-> "", datatype |-> "", error |-> "none"]

Open ==
    /\ reader.state = "init"
    /\ reader' = OpenResult(store).reader
    /\ log' = OpenResult(store).log
    /\ ret' = [op |-> "open", args |-> <<>>, value |-> OpenResult(store).reader.error]
    /\ UNCHANGED store
    /\ UNCHANGED repair

IsValid ==
    /\ reader.state = "open"
    /\ ret' = [op |-> "is_valid", args |-> <<>>, value |-> is_valid(store).ok]
    /\ log' = is_valid(store).log
    /\ UNCHANGED <<store, reader>>
    /\ UNCHANGED repair

ReadBuffers ==
    /\ reader.state = "open"
    /\ \E start_n \in 0..(MaxBuffers + 1), end_n \in 0..(MaxBuffers + 1),
          end_given \in BOOLEAN, is_raw \in BOOLEAN :
          /\ end_given \/ end_n = 0
          /\ ret' = [op |-> "read_buffers",
                     args |-> [start_n |-> start_n, end_given |-> end_given,
                               end_n |-> end_n, is_raw |-> is_raw],
                     value |-> read_buffers(store, reader.cal, start_n, end_given, end_n, is_raw)]
    /\ log' = <<>>
    /\ UNCHANGED <<store, reader>>
    /\ UNCHANGED repair

(***************************************************************************)
(* The stores of the validation family: a well-formed recording of whole   *)
(* buffers with one of the known modes and datatypes, damaged by at most   *)
(* MaxDefects of the defects field recordings show.                        *)
(***************************************************************************)
\* the sample interval of the recordings of the model, that of the default rate
IntervalNs == NanosPerSecond \div samplerate_sps_default

Defects ==
    {"no_file", "no_data_group", "no_dset_current",
     "no_mode", "legacy_mode", "no_datatype", "legacy_datatype", "no_window_samples",
     "no_gain_time", "no_offset_time", "no_gain_current", "no_offset_current",
     "no_gain_voltage", "no_offset_voltage", "zero_gain_voltage",
     "no_hostname", "szip_voltage", "gzip9_time",
     "short_voltage", "long_current", "unaligned"}

\* the order the defects of a set are applied in: lengths first, structure last
DefectOrder ==
    <<"unaligned", "short_voltage", "long_current",
      "szip_voltage", "gzip9_time", "no_hostname",
      "no_gain_time", "no_offset_time", "no_gain_current", "no_offset_current",
      "no_gain_voltage", "no_offset_voltage", "zero_gain_voltage",
      "no_window_samples", "legacy_datatype", "no_datatype", "legacy_mode", "no_mode",
      "no_dset_current", "no_data_group", "no_file">>

\* the dataset ds of s, when s has it: without an attribute, one sample longer,
\* one sample shorter, stored with a compression filter
DsetDropAttr(s, ds, attr) ==
    IF ds \in DOMAIN s.dsets THEN [s EXCEPT !.dsets[ds].attrs = Drop(@, attr)] ELSE s
DsetGrow(s, ds, sample) ==
    IF ds \in DOMAIN s.dsets THEN [s EXCEPT !.dsets[ds].data = Append(@, sample)] ELSE s
DsetShrink(s, ds) ==
    IF ds \in DOMAIN s.dsets
        THEN [s EXCEPT !.dsets[ds].data = SubSeq(@, 1, Len(@) - 1)] ELSE s
DsetCompress(s, ds, comp, opts) ==
    IF ds \in DOMAIN s.dsets
        THEN [s EXCEPT !.dsets[ds].compression = comp, !.dsets[ds].compression_opts = opts]
        ELSE s

ApplyDefect(s, d) ==
    CASE d = "no_file" ->
            [exists |-> FALSE, groups |-> {}, attrs |-> <<>>, data_attrs |-> <<>>,
             dsets |-> <<>>]
      [] d = "no_data_group" ->
            [s EXCEPT !.groups = {}, !.data_attrs = <<>>, !.dsets = <<>>]
      [] d = "no_dset_current" -> [s EXCEPT !.dsets = Drop(@, "current")]
      [] d = "no_mode" -> [s EXCEPT !.attrs = Drop(@, "mode")]
      [] d = "legacy_mode" ->
            IF "mode" \in DOMAIN s.attrs THEN [s EXCEPT !.attrs["mode"] = "harvesting"] ELSE s
      [] d = "no_datatype" -> [s EXCEPT !.data_attrs = Drop(@, "datatype")]
      [] d = "legacy_datatype" ->
            IF "datatype" \in DOMAIN s.data_attrs
                THEN [s EXCEPT !.data_attrs["datatype"] = "ivcurves"] ELSE s
      [] d = "no_window_samples" -> [s EXCEPT !.data_attrs = Drop(@, "window_samples")]
      [] d = "no_gain_time" -> DsetDropAttr(s, "time", "gain")
      [] d = "no_offset_time" -> DsetDropAttr(s, "time", "offset")
      [] d = "no_gain_current" -> DsetDropAttr(s, "current", "gain")
      [] d = "no_offset_current" -> DsetDropAttr(s, "current", "offset")
      [] d = "no_gain_voltage" -> DsetDropAttr(s, "voltage", "gain")
      [] d = "no_offset_voltage" -> DsetDropAttr(s, "voltage", "offset")
      [] d = "zero_gain_voltage" ->
            IF "voltage" \in DOMAIN s.dsets /\ "gain" \in DOMAIN s.dsets["voltage"].attrs
                THEN [s EXCEPT !.dsets["voltage"].attrs["gain"] = 0] ELSE s
      [] d = "no_hostname" -> [s EXCEPT !.attrs = Drop(@, "hostname")]
      [] d = "szip_voltage" -> DsetCompress(s, "voltage", "szip", -1)
      [] d = "gzip9_time" -> DsetCompress(s, "time", "gzip", 9)
      [] d = "short_voltage" -> DsetShrink(s, "voltage")
      [] d = "long_current" -> DsetGrow(s, "current", 0)
      [] d = "unaligned" ->
            DsetGrow(DsetGrow(DsetGrow(s, "time", Len(ds_time(s)) * IntervalNs),
                              "voltage", 0), "current", 0)

RECURSIVE ApplyDefects(_, _, _)
ApplyDefects(s, D, order) ==
    IF order = <<>> THEN s
    ELSE ApplyDefects(IF Head(order) \in D THEN ApplyDefect(s, Head(order)) ELSE s,
                      D, Tail(order))

\* a well-formed recording of nbuf whole buffers
Recording(mode, dtype, ws, nbuf) ==
    LET n == nbuf * samples_per_buffer
    IN  MkStore(mode, dtype, ws, GaplessTime(n, IntervalNs), RampData(n, 1, 1),
                RampData(n, 1, 2), CalibrationSeriesDefault)

ValidationStores ==
    {ApplyDefects(Recording(mode, dtype, ws, nbuf), D, DefectOrder) :
        mode \in {"harvester", "emulator"},
        dtype \in {"ivsample", "ivcurve", "isc_voc"},
        ws \in {0, 1},
        nbuf \in 0..MaxBuffers,
        D \in {X \in SUBSET Defects : Cardinality(X) <= MaxDefects}}

Init ==
    /\ store \in ValidationStores
    /\ reader = ReaderInit
    /\ log = <<>>
    /\ ret = RetNone
    /\ repair = RepairIdle

Next == Open \/ IsValid

Spec == Init /\ [][Next]_vars

(***************************************************************************)
(* The invariants of a store as section 3 of the specification states      *)
(* them, for a container that holds the data group and its three datasets. *)
(***************************************************************************)
HasShape(s) ==
    s.exists /\ "data" \in s.groups /\ {"time", "voltage", "current"} \subseteq DOMAIN s.dsets

\* 3: mode in {harvester, emulator} and datatype in allowed[mode]
ModeKnown(s) == "mode" \in DOMAIN s.attrs /\ s.attrs["mode"] \in {"harvester", "emulator"}
PairingAllowed(s) ==
    /\ ModeKnown(s)
    /\ "datatype" \in DOMAIN s.data_attrs
    /\ s.data_attrs["datatype"] \in
           (IF s.attrs["mode"] = "emulator" THEN {"ivsample"}
                                           ELSE {"ivsample", "ivcurve", "isc_voc"})

\* 4, forward: datatype = ivcurve implies window_samples >= 1
WindowForCurve(s) ==
    ("datatype" \in DOMAIN s.data_attrs /\ s.data_attrs["datatype"] = "ivcurve")
        => ("window_samples" \in DOMAIN s.data_attrs /\ s.data_attrs["window_samples"] >= 1)

\* 5: every channel dataset carries gain and offset
Calibrated(s) ==
    \A ds \in {"time", "voltage", "current"} : {"gain", "offset"} \subseteq DOMAIN s.dsets[ds].attrs

HardViolated(s) == ~PairingAllowed(s) \/ ~WindowForCurve(s) \/ ~Calibrated(s)

WindowSamplesAbsent(s) == "window_samples" \notin DOMAIN s.data_attrs

\* the soft invariants a store violates: 1 equal lengths, 2 aligned length, 4r no
\* window without ivcurve, 6 supported compression, 7 hostname present
SoftViolated(s) ==
    {inv \in {"1", "2", "4r", "6", "7"} :
        \/ inv = "1" /\ \E ds \in {"voltage", "current"} :
                            Len(s.dsets[ds].data) # Len(s.dsets["time"].data)
        \/ inv = "2" /\ Len(s.dsets["time"].data) % samples_per_buffer # 0
        \/ inv = "4r" /\ "datatype" \in DOMAIN s.data_attrs
                      /\ s.data_attrs["datatype"] # "ivcurve"
                      /\ "window_samples" \in DOMAIN s.data_attrs
                      /\ s.data_attrs["window_samples"] > 0
        \/ inv = "6" /\ \E ds \in {"time", "voltage", "current"} :
                            \/ s.dsets[ds].compression \notin {"None", "lzf", "gzip"}
                            \/ s.dsets[ds].compression = "gzip" /\ s.dsets[ds].compression_opts > 1
        \/ inv = "7" /\ "hostname" \notin DOMAIN s.attrs}

\* the hard invariants a store violates
HardViolatedSet(s) ==
    {inv \in {"3", "4", "5"} :
        \/ inv = "3" /\ ~PairingAllowed(s)
        \/ inv = "4" /\ ~WindowForCurve(s)
        \/ inv = "5" /\ ~Calibrated(s)}

\* the log messages that report a violation of each invariant
MessagesOf(inv) ==
    CASE inv = "1" -> {"dataset has different size"}
      [] inv = "2" -> {"datasets are not aligned with buffer-size"}
      [] inv = "3" -> {"attribute not found in file", "unsupported mode",
                       "unsupported type for mode", "attribute not found in data-group"}
      [] inv = "4" -> {"window size / samples is < 1", "attribute not found in data-group"}
      [] inv = "4r" -> {"window size / samples is > 0"}
      [] inv = "5" -> {"attribute not found in dataset"}
      [] inv = "6" -> {"unsupported compression found", "gzip compression is too high"}
      [] inv = "7" -> {"Hostname was not set"}

Reported(inv, level) ==
    \E i \in 1..Len(log) : log[i].level = level /\ log[i].msg \in MessagesOf(inv)

FaultyLogged == \E i \in 1..Len(log) : log[i].msg = "File is faulty! Will try to open"
AvailableLogged == \E i \in 1..Len(log) : log[i].msg = "File is available now"

(***************************************************************************)
(* C2.  Claim: every store that violates a hard invariant -- an            *)
(* unsupported mode/datatype pairing, or a channel dataset lacking gain or *)
(* offset -- is still opened (Open raises nothing and leaves a usable      *)
(* handle) and IsValid on that handle reports false.                       *)
(* Stated for containers that exist, hold the data group and the three     *)
(* datasets, and whose gains that are present are positive.  The code      *)
(* breaks it: __init__ reads every gain and offset and raises KeyError.    *)
(***************************************************************************)
GainsPositive(s) ==
    \A ds \in {"time", "voltage", "current"} :
        "gain" \in DOMAIN s.dsets[ds].attrs => s.dsets[ds].attrs["gain"] > 0

C2_HardViolationStillOpens ==
    (HasShape(store) /\ GainsPositive(store)
        /\ (~PairingAllowed(store) \/ ~Calibrated(store)))
    =>  /\ (ret.op = "open" => reader.state = "open" /\ FaultyLogged)
        /\ (ret.op = "is_valid" => ret.value = FALSE)

(***************************************************************************)
(* C3.  Claim as stated: IsValid returns false exactly when a hard         *)
(* invariant (3, 4 forward, 5) is violated.  C3_FalseIffHardViolated       *)
(* states it and fails: a store without the window_samples attribute and   *)
(* with a datatype other than ivcurve violates no hard invariant, and      *)
(* is_valid returns False for it.                                          *)
(* Amended (C3_FalseIffHardOrNoWindow): for a container holding the data   *)
(* group and its three datasets, is_valid returns False exactly when a     *)
(* hard invariant is violated or the window_samples attribute is absent;   *)
(* soft defects alone give True.  The call __init__ makes is covered by    *)
(* what __init__ logs about its result.                                    *)
(***************************************************************************)
C3_FalseIffHardViolated ==
    (ret.op = "is_valid" /\ HasShape(store))
        => (ret.value = FALSE <=> HardViolated(store))

C3_FalseIffHardOrNoWindow ==
    /\ (ret.op = "is_valid" /\ HasShape(store))
           => (ret.value = FALSE <=> (HardViolated(store) \/ WindowSamplesAbsent(store)))
    /\ (ret.op = "open" /\ HasShape(store))
           => /\ FaultyLogged <=> (HardViolated(store) \/ WindowSamplesAbsent(store))
              /\ AvailableLogged <=> ~FaultyLogged

C3_Witness ==
    /\ ret.op = "is_valid"
    /\ ret.value = FALSE
    /\ ~HardViolated(store)
    /\ WindowSamplesAbsent(store)

(***************************************************************************)
(* C4.  Claim as stated: one IsValid call logs every violated invariant,   *)
(* hard ones as errors and soft ones as warnings.  C4_EveryViolationLogged *)
(* states it and fails: is_valid returns at the first hard criterion that  *)
(* fails, so a second hard violation and every soft violation of the same  *)
(* store go unlogged.                                                      *)
(* Amended (C4_FirstHardOrAllSoft): when a hard criterion fails the call   *)
(* logs exactly one record, an error (for the first failing criterion in   *)
(* the order of the code), and returns False; otherwise it returns True    *)
(* and logs a warning for every violated soft invariant and nothing else.  *)
(* The call always returns a boolean.                                      *)
(***************************************************************************)
C4_EveryViolationLogged ==
    (ret.op = "is_valid" /\ HasShape(store))
        => /\ \A inv \in HardViolatedSet(store) : Reported(inv, "error")
           /\ \A inv \in SoftViolated(store) : Reported(inv, "warning")

C4_FirstHardOrAllSoft ==
    (ret.op = "is_valid" /\ HasShape(store))
        => /\ ret.value \in BOOLEAN
           /\ IF HardViolated(store) \/ WindowSamplesAbsent(store)
                  THEN /\ ret.value = FALSE
                       /\ Len(log) = 1
                       /\ log[1].level = "error"
                       /\ \/ \E inv \in HardViolatedSet(store) : log[1].msg \in MessagesOf(inv)
                          \/ /\ WindowSamplesAbsent(store)
                             /\ log[1].msg = "attribute not found in data-group"
                  ELSE /\ ret.value = TRUE
                       /\ \A inv \in SoftViolated(store) : Reported(inv, "warning")
                       /\ \A i \in 1..Len(log) :
                              /\ log[i].level = "warning"
                              /\ \E inv \in SoftViolated(store) : log[i].msg \in MessagesOf(inv)

C4_Witness ==
    /\ ret.op = "is_valid"
    /\ Cardinality(SoftViolated(store)) >= 2
    /\ Len(log) >= 2
    /\ ret.value = TRUE

(***************************************************************************)
(* The stores of the reading family: recordings with or without the mode   *)
(* attribute whose three channels have any lengths near each other, read   *)
(* raw or calibrated.  Voltage has a negative offset, so its lowest raw    *)
(* value converts to a clamped 0.                                          *)
(***************************************************************************)
ReadCal ==
    [voltage |-> [gain |-> 3, offset |-> -4],
     current |-> [gain |-> 250, offset |-> 0],
     time    |-> [gain |-> 1, offset |-> 0]]

\* by how much voltage and current may differ in length from time
LengthDeltas == {-samples_per_buffer, -1, 0, 1}

ReadStores ==
    {LET s == MkStore("harvester", "ivsample", 0, GaplessTime(n_t, IntervalNs),
                      RampData(n_t + d_v, 1, 1), RampData(n_t + d_c, 1, 2), ReadCal)
     IN  IF has_mode THEN s ELSE ApplyDefect(s, "no_mode") :
        n_t \in {n \in 0..(MaxBuffers * samples_per_buffer + 1) : n >= samples_per_buffer},
        d_v \in LengthDeltas, d_c \in LengthDeltas, has_mode \in BOOLEAN}
    \cup
    {MkStore("harvester", "ivsample", 0, GaplessTime(n, IntervalNs),
             RampData(n, 1, 1), RampData(n, 1, 2), ReadCal) : n \in 0..samples_per_buffer}

InitRead ==
    /\ store \in ReadStores
    /\ reader = ReaderInit
    /\ log = <<>>
    /\ ret = RetNone
    /\ repair = RepairIdle

NextRead == Open \/ IsValid \/ ReadBuffers

SpecRead == InitRead /\ [][NextRead]_vars

\* the data of channel c (1 time, 2 voltage, 3 current) of a triple, and its pair
ChannelName(c) == <<"time", "voltage", "current">>[c]

(***************************************************************************)
(* C1.  For a store that lacks the mode attribute and is well-formed       *)
(* otherwise (the §3 shape, every other attribute, equal and aligned       *)
(* channel lengths): Open succeeds, IsValid returns false, and             *)
(* ReadBuffers() yields one full triple per buffer of the store.           *)
(***************************************************************************)
MissingModeOnly(s) ==
    /\ HasShape(s)
    /\ "mode" \notin DOMAIN s.attrs
    /\ "hostname" \in DOMAIN s.attrs
    /\ {"datatype", "window_samples"} \subseteq DOMAIN s.data_attrs
    /\ s.data_attrs["datatype"] \in {"ivsample", "ivcurve", "isc_voc"}
    /\ WindowForCurve(s)
    /\ Calibrated(s)
    /\ GainsPositive(s)
    /\ SoftViolated(s) = {}

C1_MissingModeStillReads ==
    MissingModeOnly(store)
    =>  /\ reader.state \in {"init", "open"}
        /\ (ret.op = "open" => reader.state = "open" /\ FaultyLogged)
        /\ (ret.op = "is_valid" => ret.value = FALSE)
        /\ (ret.op = "read_buffers" /\ ~ret.args.end_given /\ ret.args.start_n = 0)
               => /\ Len(ret.value) * samples_per_buffer = Len(store.dsets["time"].data)
                  /\ \A k \in 1..Len(ret.value) : \A c \in 1..3 :
                         Len(ret.value[k][c]) = samples_per_buffer

C1_Witness ==
    /\ MissingModeOnly(store)
    /\ ret.op = "read_buffers"
    /\ ~ret.args.end_given
    /\ ret.args.start_n = 0
    /\ Len(ret.value) >= 2

C6_BuffersAreFull ==
    (ret.op = "read_buffers" /\ ~ret.args.end_given)
    =>  \A k \in 1..Len(ret.value) : \A c \in 1..3 :
            Len(ret.value[k][c]) = samples_per_buffer

(***************************************************************************)
(* The statistics family: gapless recordings of up to MaxLen samples whose *)
(* raw voltage and current take every combination of two values, so that   *)
(* the chunked sums and statistics can be compared with the sums and       *)
(* statistics over all samples.  max_elements < MaxLen, so the longest     *)
(* recordings span two chunks, the second one partial.                     *)
(***************************************************************************)
Energy ==
    /\ reader.state = "open"
    /\ ret' = [op |-> "energy", args |-> <<>>, value |-> energy(store, reader)]
    /\ log' = <<>>
    /\ UNCHANGED <<store, reader>>
    /\ UNCHANGED repair

\* get_metadata takes the statistics of every dataset but /data/time
DsetStatistics ==
    /\ reader.state = "open"
    /\ \E ch \in {"voltage", "current"} :
          ret' = [op |-> "dset_statistics", args |-> [channel |-> ch],
                  value |-> dset_statistics(store.dsets[ch])]
    /\ log' = <<>>
    /\ UNCHANGED <<store, reader>>
    /\ UNCHANGED repair

\* the voltage offset makes raw 0 convert to a negative value, which raw_to_si clamps
StatsCal ==
    [voltage |-> [gain |-> 2, offset |-> -1],
     current |-> [gain |-> 1, offset |-> 0],
     time    |-> [gain |-> 1, offset |-> 0]]

VoltageRaws == {0, 2}
CurrentRaws == {1, 3}

\* <<d_v, d_c>>: by how much voltage and current differ in length from time
StatsDeltas == {<<0, 0>>, <<-1, 0>>, <<0, 1>>}

InitStats ==
    /\ \E n \in 0..MaxLen, d \in StatsDeltas :
          \E v \in [1..Max(n + d[1], 0) -> VoltageRaws],
             c \in [1..Max(n + d[2], 0) -> CurrentRaws] :
             store = MkStore("harvester", "ivsample", 0, GaplessTime(n, IntervalNs),
                             v, c, StatsCal)
    /\ reader = ReaderInit
    /\ log = <<>>
    /\ ret = RetNone
    /\ repair = RepairIdle

NextStats == Open \/ Energy \/ DsetStatistics

SpecStats == InitStats /\ [][NextStats]_vars

(***************************************************************************)
(* C7.  Energy() is the sum, over every sample index k of the time         *)
(* channel, of voltage_si[k] * current_si[k] * sample_interval_s: each     *)
(* sample contributes exactly once whatever the chunk size.  The energy    *)
(* is the fraction num / den with den = samplerate_sps, so the claim is    *)
(* num = the sum of the products.  The sum is defined when voltage and     *)
(* current hold a sample for every time index.  A store of constant        *)
(* voltage and current is the instance energy = v * c * n / samplerate.    *)
(***************************************************************************)
RECURSIVE SumOfProducts(_, _, _)
SumOfProducts(vs, cs, n) ==
    IF n = 0 THEN 0
    ELSE SumOfProducts(vs, cs, n - 1)
         + Max(vs[n] * reader.cal.voltage.gain + reader.cal.voltage.offset, 0)
           * Max(cs[n] * reader.cal.current.gain + reader.cal.current.offset, 0)

ChannelsCoverTime ==
    /\ Len(ds_voltage(store)) >= Len(ds_time(store))
    /\ Len(ds_current(store)) >= Len(ds_time(store))

C7_EnergyIsSumOverSamples ==
    (ret.op = "energy" /\ ChannelsCoverTime)
    =>  /\ ret.value.error = "none"
        /\ ret.value.den = reader.samplerate_sps
        /\ ret.value.num = SumOfProducts(ds_voltage(store), ds_current(store),
                                         Len(ds_time(store)))
        /\ \A v \in VoltageRaws, c \in CurrentRaws :
              (\A k \in 1..Len(ds_time(store)) :
                    ds_voltage(store)[k] = v /\ ds_current(store)[k] = c)
              => ret.value.num = Len(ds_time(store))
                                 * raw_to_si(reader.cal.voltage, v)
                                 * raw_to_si(reader.cal.current, c)

\* an energy over two chunks, the second partial, with a clamped sample and a
\* nonzero sample in each chunk
C7_Witness ==
    /\ ret.op = "energy"
    /\ ChannelsCoverTime
    /\ Len(ds_time(store)) > max_elements
    /\ Len(ds_time(store)) % max_elements # 0
    /\ ds_voltage(store)[1] = 0
    /\ ds_voltage(store)[max_elements] = 2
    /\ ds_voltage(store)[max_elements + 1] = 2
    /\ ret.value.error = "none"
    /\ ret.value.num > 0

(***************************************************************************)
(* C8.  Claim: DatasetStatistics(channel) returns the mean, min and max of *)
(* the whole channel in SI units, for every dataset length: the chunked    *)
(* result equals the statistic over all samples in one pass.  (The std is  *)
(* left out of the formula: it needs a square root.)  The code breaks it:  *)
(* the mean is the unweighted mean of the chunks' means, which is not the  *)
(* mean of the samples when the last chunk is shorter than the others.     *)
(***************************************************************************)
C8_StatisticsOfWholeChannel ==
    (ret.op = "dset_statistics" /\ ret.value.error = "none" /\ ~ret.value.empty)
    =>  LET dset == store.dsets[ret.args.channel]
            si == raw_to_si_arr([gain |-> dset.attrs["gain"], offset |-> dset.attrs["offset"]],
                                dset.data)
        IN  /\ FracEq(ret.value.mean, [num |-> SeqSum(si), den |-> Len(si)])
            /\ \A i \in 1..Len(si) : ret.value.min <= si[i] /\ si[i] <= ret.value.max
            /\ \E i \in 1..Len(si) : ret.value.min = si[i]
            /\ \E i \in 1..Len(si) : ret.value.max = si[i]

(***************************************************************************)
(* The time family: recordings of up to MaxBuffers + 1 buffers whose time  *)
(* channel advances by a fixed interval, with at most one forward jump     *)
(* placed before any sample.  Time is unsigned in the store; only forward  *)
(* jumps are drawn, so no difference wraps around.                         *)
(***************************************************************************)
DataTimeDiffs ==
    /\ reader.state = "open"
    /\ ret' = [op |-> "data_timediffs", args |-> <<>>, value |-> data_timediffs(store, reader)]
    /\ log' = <<>>
    /\ UNCHANGED <<store, reader>>
    /\ UNCHANGED repair

CheckTimeDiffs ==
    /\ reader.state = "open"
    /\ ret' = [op |-> "check_timediffs", args |-> <<>>, value |-> check_timediffs(store, reader)]
    /\ log' = IF Cardinality(data_timediffs(store, reader)) > 1
                  THEN <<LogWarning("Time-jumps detected", <<>>)>>
                  ELSE <<>>
    /\ UNCHANGED <<store, reader>>
    /\ UNCHANGED repair

\* n time values `interval` apart, with `jump` more between samples p - 1 and p
JumpedTime(n, interval, p, jump) ==
    [i \in 1..n |-> (i - 1) * interval + (IF i - 1 >= p THEN jump ELSE 0)]

TimeIntervals == {IntervalNs, 2 * IntervalNs}

\* no jump, one too small to survive the rounding, one sample, one buffer
TimeJumps(interval) == {0, NanosPerMicro, interval, samples_per_buffer * interval}

InitTime ==
    /\ \E n \in 0..((MaxBuffers + 1) * samples_per_buffer), interval \in TimeIntervals :
          \E p \in 1..Max(n - 1, 1), jump \in TimeJumps(interval) :
             store = MkStore("harvester", "ivsample", 0, JumpedTime(n, interval, p, jump),
                             RampData(n, 1, 1), RampData(n, 1, 2), CalibrationSeriesDefault)
    /\ reader = ReaderInit
    /\ log = <<>>
    /\ ret = RetNone
    /\ repair = RepairIdle

NextTime == Open \/ DataTimeDiffs \/ CheckTimeDiffs

SpecTime == InitTime /\ [][NextTime]_vars

\* the steps between consecutive time values
TimeSteps(t) == [k \in 1..(Len(t) - 1) |-> t[k + 1] - t[k]]

Gapless(t) ==
    /\ Len(t) >= 2
    /\ \A k \in 1..(Len(t) - 1) : TimeSteps(t)[k] = TimeSteps(t)[1] /\ TimeSteps(t)[k] > 0

\* the number of whole buffers in the time channel
BufferCount(t) == Len(t) \div samples_per_buffer

\* gapless but for one longer step into the first sample of buffer i
JumpAtBuffer(t, i) ==
    LET k == i * samples_per_buffer
        others == (1..(Len(t) - 1)) \ {k}
    IN  /\ i >= 1
        /\ i < BufferCount(t)
        /\ others # {}
        /\ \A a \in others : TimeSteps(t)[a] > 0 /\ TimeSteps(t)[k] > TimeSteps(t)[a]
        /\ \A a, b \in others : TimeSteps(t)[a] = TimeSteps(t)[b]

(***************************************************************************)
(* C9.  Claim: on a gapless recording with at least two buffers,           *)
(* DataTimeDiffs returns exactly one unique delta, and its value is the    *)
(* time between consecutive buffer starts, samples_per_buffer /            *)
(* samplerate seconds.  Deltas are in microseconds, so the value claimed   *)
(* is delta * samplerate = samples_per_buffer * 10^6.  The code breaks it: *)
(* it divides the difference of two buffer starts by samples_per_buffer    *)
(* and so returns the time between two samples.                            *)
(***************************************************************************)
C9_DeltaIsBufferPeriod ==
    (/\ ret.op = "data_timediffs"
     /\ Gapless(ds_time(store))
     /\ BufferCount(ds_time(store)) >= 2)
    =>  /\ Cardinality(ret.value) = 1
        /\ \A d \in ret.value :
              d * reader.samplerate_sps
              = samples_per_buffer * (NanosPerSecond \div NanosPerMicro)

(***************************************************************************)
(* C10.  Claim: for an otherwise gapless recording, one time jump at the   *)
(* start of any buffer i, 1 <= i < buffer count, buffers that begin a new  *)
(* chunk of max_elements samples included, makes DataTimeDiffs return two  *)
(* unique deltas and CheckTimeDiffs return false.  Stated for recordings   *)
(* of three buffers or more, where a pair of buffers without the jump      *)
(* exists.  The code breaks it: differences are taken inside each chunk of *)
(* max_elements samples, never between the last buffer of one chunk and    *)
(* the first buffer of the next, and a jump smaller than half a            *)
(* microsecond per sample is rounded away.                                 *)
(***************************************************************************)
C10_JumpAtAnyBufferDetected ==
    (/\ BufferCount(ds_time(store)) >= 3
     /\ \E i \in 1..(BufferCount(ds_time(store)) - 1) : JumpAtBuffer(ds_time(store), i))
    =>  /\ ret.op = "data_timediffs" => Cardinality(ret.value) = 2
        /\ ret.op = "check_timediffs" => ret.value = FALSE

(***************************************************************************)
(* C11.  Claim: CheckTimeDiffs returns true if and only if DataTimeDiffs   *)
(* finds exactly one unique delta, and false for any other number of       *)
(* deltas, zero included; on more than one delta it logs a warning and     *)
(* does not raise.  As the code has it: true if and only if DataTimeDiffs  *)
(* finds at most one delta, so a store with fewer than two buffers, which  *)
(* has no delta, passes; the warning is logged exactly when there is more  *)
(* than one delta.                                                         *)
(***************************************************************************)
C11_TrueIffExactlyOneDelta ==
    ret.op = "check_timediffs"
    => (ret.value = TRUE <=> Cardinality(data_timediffs(store, reader)) = 1)

C11_TrueIffAtMostOneDelta ==
    ret.op = "check_timediffs"
    =>  /\ ret.value \in BOOLEAN
        /\ ret.value = TRUE <=> Cardinality(data_timediffs(store, reader)) <= 1
        /\ ret.value = FALSE
           <=> \E i \in 1..Len(log) :
                  log[i].level = "warning" /\ log[i].msg = "Time-jumps detected"
        /\ \A i \in 1..Len(log) : log[i].level # "error"

\* a store of fewer than two buffers: no delta, and the check passes
C11_Witness ==
    /\ ret.op = "check_timediffs"
    /\ Len(ds_time(store)) > 0
    /\ BufferCount(ds_time(store)) < 2
    /\ data_timediffs(store, reader) = {}
    /\ ret.value = TRUE

(***************************************************************************)
(* The calibration family.  CalibrationPair works on floats; here a value  *)
(* is an exact fraction [num, den] with den > 0, so gains and offsets that *)
(* are not whole numbers, and the division in si_to_raw and from_fn, are   *)
(* computed and not assumed.  Float rounding is outside the model.         *)
(***************************************************************************)
MaxCal == 2

Frac(n, d) == [num |-> n, den |-> d]
FracNeg(a) == [num |-> -a.num, den |-> a.den]
FracSub(a, b) == FracAdd(a, FracNeg(b))
FracMul(a, b) == [num |-> a.num * b.num, den |-> a.den * b.den]
\* 1 / a, for a # 0, keeping the denominator positive
FracInv(a) == IF a.num > 0 THEN [num |-> a.den, den |-> a.num]
                           ELSE [num |-> -a.den, den |-> -a.num]
FracDiv(a, b) == FracMul(a, FracInv(b))
FracLess(a, b) == a.num * b.den < b.num * a.den
FracMax(a, b) == IF FracLess(a, b) THEN b ELSE a
FracZero == [num |-> 0, den |-> 1]
FracOne == [num |-> 1, den |-> 1]

\* CalibrationPair(gain=..., offset=...): gain is a PositiveFloat
CalibrationPair(gain, offset) ==
    IF FracLess(FracZero, gain)
        THEN [error |-> "none", gain |-> gain, offset |-> offset]
        ELSE [error |-> "ValidationError"]

\* raw_to_si without the clamp
pair_raw_to_si_unclamped(pair, values_raw) ==
    FracAdd(FracMul(values_raw, pair.gain), pair.offset)

\* CalibrationPair.raw_to_si
pair_raw_to_si(pair, values_raw) ==
    FracMax(FracAdd(FracMul(values_raw, pair.gain), pair.offset), FracZero)

\* si_to_raw that multiplies by the gain
pair_si_to_raw_times(pair, values_si) ==
    FracMax(FracMul(FracSub(values_si, pair.offset), pair.gain), FracZero)

\* CalibrationPair.si_to_raw
pair_si_to_raw(pair, values_si) ==
    FracMax(FracDiv(FracSub(values_si, pair.offset), pair.gain), FracZero)

\* from_fn that forgets to scale the offset
from_fn_raw_offset(f0, f1) ==
    LET offset == f0
        gain_inv == FracSub(f1, offset)
    IN  IF gain_inv.num = 0
            THEN [error |-> "ZeroDivisionError"]
            ELSE CalibrationPair(FracInv(gain_inv), FracNeg(offset))

\* CalibrationPair.from_fn(fn), fn given by its two probes f0 = fn(0), f1 = fn(1.0)
from_fn(f0, f1) ==
    LET offset == f0
        gain_inv == FracSub(f1, offset)
    IN  IF gain_inv.num = 0
            THEN [error |-> "ZeroDivisionError"]
            ELSE CalibrationPair(FracInv(gain_inv), FracDiv(FracNeg(offset), gain_inv))

\* the fractions n / d with |n| <= k and d in 1..2
Fractions(k) == {Frac(n, d) : n \in (-k)..k, d \in 1..2}

\* the pair the next conversion is called on
ThePair == IF ret.op \in {"CalibrationPair", "from_fn"} THEN ret.value ELSE ret.args.pair

HasPair ==
    /\ ret.op \in {"CalibrationPair", "from_fn", "raw_to_si", "si_to_raw"}
    /\ ThePair.error = "none"

NewPair ==
    /\ \E gain \in Fractions(MaxCal), offset \in Fractions(MaxCal) :
          ret' = [op |-> "CalibrationPair", args |-> [gain |-> gain, offset |-> offset],
                  value |-> CalibrationPair(gain, offset)]
    /\ UNCHANGED <<store, reader, log>>
    /\ UNCHANGED repair

FromFn ==
    /\ \E f0 \in Fractions(MaxCal), f1 \in Fractions(MaxCal) :
          ret' = [op |-> "from_fn", args |-> [f0 |-> f0, f1 |-> f1],
                  value |-> from_fn(f0, f1)]
    /\ UNCHANGED <<store, reader, log>>
    /\ UNCHANGED repair

RawToSi ==
    /\ HasPair
    /\ \E raw \in Fractions(MaxCal + 1) :
          ret' = [op |-> "raw_to_si", args |-> [pair |-> ThePair, raw |-> raw],
                  value |-> pair_raw_to_si(ThePair, raw)]
    /\ UNCHANGED <<store, reader, log>>
    /\ UNCHANGED repair

\* si_to_raw of a fresh value or of the value raw_to_si has just returned
SiToRaw ==
    /\ HasPair
    /\ \E si \in Fractions(MaxCal + 1) \cup (IF ret.op = "raw_to_si" THEN {ret.value} ELSE {}) :
          ret' = [op |-> "si_to_raw", args |-> [pair |-> ThePair, si |-> si],
                  value |-> pair_si_to_raw(ThePair, si)]
    /\ UNCHANGED <<store, reader, log>>
    /\ UNCHANGED repair

InitCal ==
    /\ store = MkStore("harvester", "ivsample", 0, <<>>, <<>>, <<>>, CalibrationSeriesDefault)
    /\ reader = ReaderInit
    /\ log = <<>>
    /\ ret = RetNone
    /\ repair = RepairIdle

NextCal == NewPair \/ FromFn \/ RawToSi \/ SiToRaw

SpecCal == InitCal /\ [][NextCal]_vars

\* raw * gain + offset of a call of raw_to_si, as numerator and denominator
LinNum(pair, raw) ==
    raw.num * pair.gain.num * pair.offset.den + pair.offset.num * raw.den * pair.gain.den
LinDen(pair, raw) == raw.den * pair.gain.den * pair.offset.den

(***************************************************************************)
(* C12.  For every CalibrationPair (gain > 0, any offset) and every input, *)
(* raw_to_si(raw) = max(raw * gain + offset, 0) and si_to_raw(si) =        *)
(* max((si - offset) / gain, 0); neither result is negative and neither    *)
(* call fails.  The quotient q = (si - offset) / gain is stated as         *)
(* q * gain = si - offset.                                                 *)
(***************************************************************************)
C12_ConversionsClampAtZero ==
    /\ ret.op = "raw_to_si"
       =>  LET v == ret.value
               n == LinNum(ret.args.pair, ret.args.raw)
               d == LinDen(ret.args.pair, ret.args.raw)
           IN  /\ v.den > 0 /\ v.num >= 0
               /\ n >= 0 => v.num * d = n * v.den
               /\ n < 0 => v.num = 0
    /\ ret.op = "si_to_raw"
       =>  LET v == ret.value
               g == ret.args.pair.gain
               o == ret.args.pair.offset
               si == ret.args.si
               n == si.num * o.den - o.num * si.den
               d == si.den * o.den
           IN  /\ v.den > 0 /\ v.num >= 0
               /\ n >= 0 => v.num * g.num * d = n * v.den * g.den
               /\ n < 0 => v.num = 0

\* raw_to_si has clamped a negative value, for a gain that is not a whole number
C12_Witness ==
    /\ ret.op = "raw_to_si"
    /\ ret.args.pair.gain.num % ret.args.pair.gain.den # 0
    /\ ret.args.pair.offset.num # 0
    /\ LinNum(ret.args.pair, ret.args.raw) < 0
    /\ ret.value.num = 0

(***************************************************************************)
(* C13.  Claim: for every CalibrationPair and every raw with               *)
(* raw >= -offset / gain, si_to_raw(raw_to_si(raw)) = raw, and for every   *)
(* raw with raw * gain + offset < 0, raw_to_si(raw) = 0.  A step from a    *)
(* raw_to_si to the si_to_raw of its result, on the same pair, is the      *)
(* round trip.  As the code has it, the round trip returns raw when also   *)
(* raw >= 0: si_to_raw clamps at 0, so with a positive offset a negative   *)
(* raw comes back as 0.                                                    *)
(***************************************************************************)
RoundTripStep ==
    /\ ret.op = "raw_to_si"
    /\ ret'.op = "si_to_raw"
    /\ ret'.args.pair = ret.args.pair
    /\ ret'.args.si = ret.value

ClampedToZero ==
    (ret.op = "raw_to_si" /\ LinNum(ret.args.pair, ret.args.raw) < 0) => ret.value.num = 0

C13_RoundTrip ==
    [][/\ (RoundTripStep /\ LinNum(ret.args.pair, ret.args.raw) >= 0)
          => FracEq(ret'.value, ret.args.raw)
       /\ ClampedToZero]_vars

C13_RoundTripOfNonNegativeRaw ==
    [][/\ (RoundTripStep /\ LinNum(ret.args.pair, ret.args.raw) >= 0 /\ ret.args.raw.num >= 0)
          => FracEq(ret'.value, ret.args.raw)
       /\ ClampedToZero]_vars

\* si_to_raw has returned the positive raw whose raw_to_si it was given
C13_Witness ==
    /\ ret.op = "si_to_raw"
    /\ ret.args.si \notin Fractions(MaxCal + 1)
    /\ ret.args.pair.gain.num # ret.args.pair.gain.den
    /\ ret.args.pair.offset.num # 0
    /\ \E raw \in Fractions(MaxCal + 1) :
          /\ raw.num > 0
          /\ ret.args.si = pair_raw_to_si(ret.args.pair, raw)
          /\ FracEq(ret.value, raw)

(***************************************************************************)
(* C14.  Claim: no CalibrationPair with gain <= 0 can be constructed:      *)
(* direct construction with gain <= 0 fails with the validation error, and *)
(* from_fn(f) with f(1.0) <= f(0) fails with that same error.  The code    *)
(* breaks it for f(1.0) = f(0): from_fn divides by f(1.0) - f(0) before    *)
(* the pair is validated.                                                  *)
(***************************************************************************)
C14_NonPositiveGainRejected ==
    /\ (ret.op = "CalibrationPair" /\ ret.args.gain.num <= 0)
       => ret.value.error = "ValidationError"
    /\ (ret.op = "from_fn" /\ ~FracLess(ret.args.f0, ret.args.f1))
       => ret.value.error = "ValidationError"

(***************************************************************************)
(* C15.  from_fn(f) solves the two-point affine fit: for an affine f with  *)
(* f(1.0) > f(0) the pair inverts f: raw_to_si(f(0)) = 0,                  *)
(* raw_to_si(f(1.0)) = 1, and si_to_raw(x) = f(x) for every x with         *)
(* f(x) >= 0, where f(x) = f(0) + (f(1.0) - f(0)) * x.                     *)
(***************************************************************************)
AffineThrough(f0, f1, x) == FracAdd(f0, FracMul(FracSub(f1, f0), x))

C15_FromFnInvertsAffine ==
    (ret.op = "from_fn" /\ FracLess(ret.args.f0, ret.args.f1))
    =>  /\ ret.value.error = "none"
        /\ FracEq(pair_raw_to_si(ret.value, ret.args.f0), FracZero)
        /\ FracEq(pair_raw_to_si(ret.value, ret.args.f1), FracOne)
        /\ \A x \in Fractions(MaxCal + 1) :
              ~FracLess(AffineThrough(ret.args.f0, ret.args.f1, x), FracZero)
              => FracEq(pair_si_to_raw(ret.value, x),
                        AffineThrough(ret.args.f0, ret.args.f1, x))

\* a fit with a nonzero intercept and a slope other than 1
C15_Witness ==
    /\ ret.op = "from_fn"
    /\ FracLess(ret.args.f0, ret.args.f1)
    /\ ret.args.f0.num # 0
    /\ ~FracEq(FracSub(ret.args.f1, ret.args.f0), FracOne)
    /\ ret.value.error = "none"
    /\ ret.value.offset.num # 0

(***************************************************************************)
(* The metadata family: get_metadata and save_metadata.  The sidecar file  *)
(* <store>.yml is the field yml of the store: whether it exists and what   *)
(* was dumped into it.                                                     *)
(***************************************************************************)
\* _dataset_info of get_metadata for one dataset, and the dataset's attributes
dataset_metadata(s, r, ds) ==
    [shape |-> Len(s.dsets[ds].data),
     compression |-> s.dsets[ds].compression,
     compression_opts |-> s.dsets[ds].compression_opts,
     attrs |-> s.dsets[ds].attrs,
     info |-> IF ds = "time"
                  THEN [time_diffs_s |-> data_timediffs(s, r)]
                  ELSE [statistics |-> dset_statistics(s.dsets[ds])]]

\* get_metadata() from the root, minimal = False: refreshes the file statistics,
\* then walks the file; energy() may raise, is_valid() logs
get_metadata(s, r) ==
    LET r2 == refresh_file_stats(s, r)
    IN  IF r2.error # "none"
            THEN [error |-> r2.error, reader |-> r, log |-> <<>>]
        ELSE IF energy(s, r2).error # "none"
            THEN [error |-> energy(s, r2).error, reader |-> r2, log |-> <<>>]
        ELSE [error |-> "none",
              reader |-> r2,
              log |-> is_valid(s).log,
              value |-> [attrs |-> s.attrs,
                         data |-> [attrs |-> s.data_attrs,
                                   energy_Ws |-> energy(s, r2),
                                   runtime_s |-> r2.runtime_ds,
                                   data_rate |-> r2.data_rate,
                                   file_size |-> r2.file_size,
                                   valid |-> is_valid(s).ok,
                                   dsets |-> [ds \in DOMAIN s.dsets |->
                                                 dataset_metadata(s, r2, ds)]]]]

\* save_metadata() that dumps without looking for an existing file
save_metadata_overwriting(s, r) ==
    LET md == get_metadata(s, r)
    IN  IF md.error # "none"
            THEN [store |-> s, reader |-> md.reader, log |-> md.log,
                  value |-> [error |-> md.error, empty |-> TRUE]]
            ELSE [store |-> [s EXCEPT !.yml = [exists |-> TRUE, content |-> md.value]],
                  reader |-> md.reader, log |-> md.log,
                  value |-> [error |-> "none", empty |-> FALSE, metadata |-> md.value]]

\* save_metadata(): the store, reader and log it leaves and what it returns
save_metadata(s, r) ==
    IF s.yml.exists
        THEN [store |-> s, reader |-> r,
              log |-> <<LogInfo("already exists, will skip", <<>>)>>,
              value |-> [error |-> "none", empty |-> TRUE]]
        ELSE LET md == get_metadata(s, r)
             IN  IF md.error # "none"
                     THEN [store |-> s, reader |-> md.reader, log |-> md.log,
                           value |-> [error |-> md.error, empty |-> TRUE]]
                     ELSE [store |-> [s EXCEPT !.yml = [exists |-> TRUE,
                                                        content |-> md.value]],
                           reader |-> md.reader, log |-> md.log,
                           value |-> [error |-> "none", empty |-> FALSE,
                                      metadata |-> md.value]]

SaveMetadata ==
    /\ reader.state = "open"
    /\ store' = save_metadata(store, reader).store
    /\ reader' = save_metadata(store, reader).reader
    /\ log' = save_metadata(store, reader).log
    /\ ret' = [op |-> "save_metadata", args |-> <<>>,
               value |-> save_metadata(store, reader).value]
    /\ UNCHANGED repair

\* no sidecar, or one that something else wrote earlier
Sidecars == {[exists |-> FALSE, content |-> [none |-> TRUE]],
             [exists |-> TRUE, content |-> [foreign |-> TRUE]]}

InitMeta ==
    /\ \E s \in ReadStores, yml \in Sidecars : store = s @@ [yml |-> yml]
    /\ reader = ReaderInit
    /\ log = <<>>
    /\ ret = RetNone
    /\ repair = RepairIdle

NextMeta == Open \/ SaveMetadata

SpecMeta == InitMeta /\ [][NextMeta]_vars

(***************************************************************************)
(* C16.  The sidecar file is written at most once: save_metadata creates   *)
(* <store>.yml only when it does not exist; when it exists the call        *)
(* leaves its content unchanged, computes no metadata (nothing but the     *)
(* skip message is logged, the reader's statistics are not refreshed) and  *)
(* returns an empty mapping, for any number of repeated calls.             *)
(***************************************************************************)
C16_SidecarWrittenOnce ==
    [][ret'.op = "save_metadata"
       =>  /\ store.yml.exists
              =>  /\ store' = store
                  /\ reader' = reader
                  /\ ret'.value.error = "none" /\ ret'.value.empty
                  /\ log' = <<LogInfo("already exists, will skip", <<>>)>>
           /\ (~store.yml.exists /\ ret'.value.error = "none")
              =>  /\ store'.yml.exists
                  /\ ~ret'.value.empty
                  /\ store'.yml.content = ret'.value.metadata
                  /\ [store' EXCEPT !.yml = store.yml] = store
           /\ (~store.yml.exists /\ ret'.value.error # "none") => store' = store]_vars

\* a second call after the call that wrote the file: skipped, file kept
C16_Witness ==
    /\ ret.op = "save_metadata"
    /\ ret.value.empty
    /\ ret.value.error = "none"
    /\ store.yml.exists
    /\ "data" \in DOMAIN store.yml.content
    /\ Len(log) = 1

(***************************************************************************)
(* The repair script (example_repair_recordings.py), one statement or one  *)
(* check per action, on one file.  shpd.Reader is BaseReader: __exit__     *)
(* closes the handle, __enter__ returns self.  shpd.Writer is not part of  *)
(* the sources; it is the writer collaborator of the specification, opened *)
(* in "modify existing" mode: it sets the attributes it is constructed     *)
(* with, resizes a dataset on request, and truncates the datasets to whole *)
(* buffers when it closes.                                                 *)
(***************************************************************************)
MaxRuns == 2
MaxRepairLen == 3

SetAttr(f, key, value) == [k \in (DOMAIN f) \cup {key} |-> IF k = key THEN value ELSE f[k]]

\* fw.h5file["data"][ds].resize(n): cut, or extended with zeros
writer_resize(s, ds, n) ==
    [s EXCEPT !.dsets[ds].data =
        [i \in 1..n |-> IF i <= Len(s.dsets[ds].data) THEN s.dsets[ds].data[i] ELSE 0]]

\* the writer, closing: an unaligned time channel is cut to whole buffers, and the
\* other channels with it
writer_align(s) ==
    LET size_new == (Len(ds_time(s)) \div samples_per_buffer) * samples_per_buffer
    IN  IF size_new < Len(ds_time(s))
            THEN [s EXCEPT !.dsets =
                    [ds \in DOMAIN s.dsets |->
                        [s.dsets[ds] EXCEPT !.data = Slice(@, 0, size_new)]]]
            ELSE s

\* Writer(fpath, mode=..., datatype=..., window_samples=..., modify_existing=True)
writer_open(s, fix, mode, datatype) ==
    CASE fix = "mode" -> [s EXCEPT !.attrs = SetAttr(@, "mode", mode)]
      [] fix = "datatype" -> [s EXCEPT !.data_attrs = SetAttr(@, "datatype", datatype)]
      [] fix = "window" -> [s EXCEPT !.data_attrs = SetAttr(@, "window_samples", 0)]
      [] OTHER -> s

\* for ds in ["current", "voltage"]
SizeOrder == <<"current", "voltage">>

\* shpd.Reader.mode_type_dict
mode_type_dict == mode_dtype_dict

\* a substring test that never finds the part
Contains_never(label, part) == FALSE

\* '"har" in label', '"emu" in label', '"curv" in label' for the labels of the model
Contains(label, part) ==
    CASE part = "har" -> label \in {"harvester", "harvesting"}
      [] part = "emu" -> label \in {"emulator", "emulation"}
      [] part = "curv" -> label \in {"ivcurve", "ivcurves"}
      [] OTHER -> FALSE

\* an access to fh.h5file after fh.__exit__() raises; the with statement ends
RepairCrashed(error) == [repair EXCEPT !.pc = "crashed", !.error = error]

\* the check that follows a finished correction
AfterFix(fix, idx) ==
    CASE fix = "size" -> IF idx < Len(SizeOrder) THEN "sizes" ELSE "align"
      [] fix = "align" -> "mode"
      [] fix = "mode" -> "datatype"
      [] fix = "datatype" -> "window"
      [] fix = "window" -> "hostname"
      [] fix = "hostname" -> "done"

\* with shpd.Reader(fpath) as fh ... ds_time_size = fh.h5file["data"]["time"].shape[0]
RepairStart ==
    /\ repair.pc \in {"idle", "done", "crashed"}
    /\ repair.run < MaxRuns
    /\ store.exists
    /\ reader' = OpenResult(store).reader
    /\ log' = OpenResult(store).log
    /\ repair' = IF OpenResult(store).reader.state = "open"
                     THEN [RepairIdle EXCEPT !.pc = "sizes", !.run = repair.run + 1,
                                             !.ds_time_size = Len(ds_time(store))]
                     ELSE [RepairIdle EXCEPT !.pc = "crashed", !.run = repair.run + 1,
                                             !.error = OpenResult(store).reader.error]
    /\ ret' = [op |-> "repair",
               args |-> [n_time |-> Len(ds_time(store)),
                         n_voltage |-> Len(ds_voltage(store)),
                         n_current |-> Len(ds_current(store))],
               value |-> <<>>]
    /\ UNCHANGED store

\* datasets with unequal size: the comparison of one dataset with ds_time_size
RepairCheckSize ==
    /\ repair.pc = "sizes"
    /\ repair' =
          IF reader.state # "open" THEN RepairCrashed("closed file")
          ELSE IF repair.ds_time_size # Len(store.dsets[SizeOrder[repair.idx]].data)
              THEN [repair EXCEPT !.pc = "exit", !.fix = "size"]
          ELSE IF repair.idx < Len(SizeOrder)
              THEN [repair EXCEPT !.idx = @ + 1]
          ELSE [repair EXCEPT !.pc = "align"]
    /\ UNCHANGED <<store, reader, log, ret>>

\* the alignment check that never finds a remainder
RepairCheckAlign_never ==
    /\ repair.pc = "align"
    /\ repair' = IF reader.state # "open" THEN RepairCrashed("closed file")
                  ELSE [repair EXCEPT !.pc = "mode"]
    /\ UNCHANGED <<store, reader, log, ret>>

\* unaligned datasets
RepairCheckAlign ==
    /\ repair.pc = "align"
    /\ repair' =
          IF reader.state # "open" THEN RepairCrashed("closed file")
          ELSE IF Len(ds_time(store)) % samples_per_buffer # 0
              THEN [repair EXCEPT !.pc = "exit", !.fix = "align"]
          ELSE [repair EXCEPT !.pc = "mode"]
    /\ UNCHANGED <<store, reader, log, ret>>

\* invalid modes
RepairCheckMode ==
    /\ repair.pc = "mode"
    /\ repair' =
          IF reader.state # "open" THEN RepairCrashed("closed file")
          ELSE IF get_mode(store) \notin DOMAIN mode_type_dict
              THEN [repair EXCEPT !.pc = "exit", !.fix = "mode",
                                  !.mode = IF Contains(get_mode(store), "har") THEN "harvester"
                                           ELSE IF Contains(get_mode(store), "emu")
                                               THEN "emulator"
                                           ELSE "harvester"]
          ELSE [repair EXCEPT !.pc = "datatype", !.mode = get_mode(store)]
    /\ UNCHANGED <<store, reader, log, ret>>

\* invalid datatype
RepairCheckDatatype ==
    /\ repair.pc = "datatype"
    /\ repair' =
          IF reader.state # "open" THEN RepairCrashed("closed file")
          ELSE IF get_datatype(store) \notin mode_type_dict[repair.mode]
              THEN [repair EXCEPT !.pc = "exit", !.fix = "datatype",
                                  !.datatype = IF Contains(get_datatype(store), "curv")
                                                   THEN "ivcurve"
                                                   ELSE "ivsample"]
          ELSE [repair EXCEPT !.pc = "window", !.datatype = get_datatype(store)]
    /\ UNCHANGED <<store, reader, log, ret>>

\* the check that sets window_samples whatever the datatype is
RepairCheckWindow_always ==
    /\ repair.pc = "window"
    /\ repair' =
          IF reader.state # "open" THEN RepairCrashed("closed file")
          ELSE IF "window_samples" \in DOMAIN store.data_attrs
              THEN [repair EXCEPT !.pc = "hostname"]
          ELSE [repair EXCEPT !.pc = "exit", !.fix = "window"]
    /\ UNCHANGED <<store, reader, log, ret>>

\* missing window_samples; for ivcurve data the script goes on to the next file
RepairCheckWindow ==
    /\ repair.pc = "window"
    /\ repair' =
          IF reader.state # "open" THEN RepairCrashed("closed file")
          ELSE IF "window_samples" \in DOMAIN store.data_attrs
              THEN [repair EXCEPT !.pc = "hostname"]
          ELSE IF repair.datatype = "ivcurve"
              THEN [repair EXCEPT !.pc = "done", !.fix = "refused"]
          ELSE [repair EXCEPT !.pc = "exit", !.fix = "window"]
    /\ reader' = IF repair'.pc = "done" THEN [reader EXCEPT !.state = "closed"] ELSE reader
    /\ UNCHANGED <<store, log, ret>>

\* missing hostname; without it the with statement ends and closes the reader
RepairCheckHostname ==
    /\ repair.pc = "hostname"
    /\ repair' =
          IF reader.state # "open" THEN RepairCrashed("closed file")
          ELSE IF "hostname" \notin DOMAIN store.attrs
              THEN [repair EXCEPT !.pc = "exit", !.fix = "hostname"]
          ELSE [repair EXCEPT !.pc = "done"]
    /\ reader' = IF repair'.pc = "done" THEN [reader EXCEPT !.state = "closed"] ELSE reader
    /\ UNCHANGED <<store, log, ret>>

\* fh.__exit__() that leaves the handle open
ReaderExit_noop(r) == r

\* fh.__exit__(): closes the handle the reader opened
ReaderExit(r) == [r EXCEPT !.state = "closed"]

RepairReaderExit ==
    /\ repair.pc = "exit"
    /\ reader' = ReaderExit(reader)
    /\ repair' = [repair EXCEPT !.pc = "writer"]
    /\ UNCHANGED <<store, log, ret>>

\* with shpd.Writer(fpath, ..., modify_existing=True) as fw
RepairWriterOpen ==
    /\ repair.pc = "writer"
    /\ store' = writer_open(store, repair.fix, repair.mode, repair.datatype)
    /\ repair' = [repair EXCEPT !.pc = "body", !.writer = "open"]
    /\ UNCHANGED <<reader, log, ret>>

\* the body of the with statement
RepairWriterBody ==
    /\ repair.pc = "body"
    /\ store' =
          CASE repair.fix = "size" ->
                  LET ds == SizeOrder[repair.idx]
                      n == Min(repair.ds_time_size, Len(store.dsets[ds].data))
                  IN  writer_resize(writer_resize(store, "time", n), ds, n)
            [] repair.fix = "hostname" -> [store EXCEPT !.attrs = SetAttr(@, "hostname", "SheepX")]
            [] OTHER -> store
    /\ repair' = [repair EXCEPT !.pc = "close"]
    /\ UNCHANGED <<reader, log, ret>>

\* the with statement ends: the writer closes
RepairWriterClose ==
    /\ repair.pc = "close"
    /\ store' = writer_align(store)
    /\ repair' = [repair EXCEPT !.pc = "enter", !.writer = "closed"]
    /\ UNCHANGED <<reader, log, ret>>

\* fh.__enter__(): returns self
RepairReaderEnter ==
    /\ repair.pc = "enter"
    /\ repair' = [repair EXCEPT !.pc = AfterFix(repair.fix, repair.idx),
                                !.idx = IF repair.fix = "size" /\ @ < Len(SizeOrder)
                                            THEN @ + 1 ELSE @]
    /\ UNCHANGED <<store, reader, log, ret>>

\* the recordings the script is run on
RepairModes == {"harvester", "emulator", "harvesting", "emulation", "recorder", ""}
RepairDatatypes == {"ivsample", "ivcurve", "ivcurves", "samples"}

RepairStore(n_t, n_v, n_c, mode, dtype, has_ws, has_host) ==
    LET s == MkStore(mode, dtype, 0, GaplessTime(n_t, IntervalNs),
                     RampData(n_v, 1, 1), RampData(n_c, 1, 2), CalibrationSeriesDefault)
    IN  [s EXCEPT !.attrs = LET a == IF mode = "" THEN Drop(@, "mode") ELSE @
                            IN  IF has_host THEN a ELSE Drop(a, "hostname"),
                  !.data_attrs = IF has_ws THEN @ ELSE Drop(@, "window_samples")]

InitRepair ==
    /\ \E n_t \in 0..MaxRepairLen, n_v \in 0..MaxRepairLen, n_c \in 0..MaxRepairLen,
          mode \in RepairModes, dtype \in RepairDatatypes,
          has_ws \in BOOLEAN, has_host \in BOOLEAN :
          store = RepairStore(n_t, n_v, n_c, mode, dtype, has_ws, has_host)
    /\ reader = ReaderInit
    /\ log = <<>>
    /\ ret = RetNone
    /\ repair = RepairIdle

NextRepair ==
    \/ RepairStart
    \/ RepairCheckSize
    \/ RepairCheckAlign
    \/ RepairCheckMode
    \/ RepairCheckDatatype
    \/ RepairCheckWindow
    \/ RepairCheckHostname
    \/ RepairReaderExit
    \/ RepairWriterOpen
    \/ RepairWriterBody
    \/ RepairWriterClose
    \/ RepairReaderEnter

SpecRepair == InitRepair /\ [][NextRepair]_vars

(***************************************************************************)
(* C17.  During the repair the store is never held by a reader and a       *)
(* writer at the same time: a writer is opened only after the reader's     *)
(* handle was closed, and no check reads through the reader while a writer *)
(* is open, for every corrective step and every combination of defects.    *)
(***************************************************************************)
C17_NeverReaderAndWriter ==
    /\ repair.pc \in {"writer", "body", "close"} => reader.state = "closed"
    /\ repair.writer = "open" => (reader.state = "closed" /\ repair.pc \in {"body", "close"})

\* a writer is open for a label correction, after the reader was open in this pass
C17_Witness ==
    /\ repair.writer = "open"
    /\ repair.fix = "mode"
    /\ reader.state = "closed"
    /\ repair.run = 1

(***************************************************************************)
(* C18.  Claim: repair is idempotent: on a store that already satisfies    *)
(* all invariants (the reader's validation at the start of the pass logs   *)
(* no warning and no error) the pass opens no writer and changes nothing,  *)
(* and a second pass right after a first changes nothing in the store.     *)
(* The code breaks the second part: a pass ends at the first check after   *)
(* its first correction (the reader is not reopened) and the size          *)
(* correction treats one pair of datasets, so the second pass still finds  *)
(* work.                                                                   *)
(***************************************************************************)
NothingToRepair ==
    /\ repair.pc \notin {"idle", "done", "crashed"}
    /\ \A i \in 1..Len(log) : log[i].level \notin {"warning", "error"}

C18_RepairIsIdempotent ==
    [][/\ NothingToRepair => (store' = store /\ repair'.writer = "closed")
       /\ (repair.run = 2 /\ repair.pc \notin {"done", "crashed"}) => store' = store]_vars

(***************************************************************************)
(* C19.  Claim: unequal-length repair: for any three initial lengths of    *)
(* time, voltage and current, after the correction all three datasets      *)
(* have the length min(time, voltage, current), and no dataset is ever     *)
(* grown.  Stated on the steps that resize: none grows a dataset, and the  *)
(* resize for the last dataset of the loop leaves the three lengths at the *)
(* minimum of the lengths the pass started with.  The code breaks it: a    *)
(* correction resizes time and the one dataset that differs from it.       *)
(***************************************************************************)
C19_AllTruncatedToMin ==
    [][(repair.pc = "body" /\ repair.fix = "size")
       =>  /\ \A ds \in DOMAIN store.dsets :
                 Len(store'.dsets[ds].data) <= Len(store.dsets[ds].data)
           /\ repair.idx = Len(SizeOrder)
              => \A ds \in DOMAIN store.dsets :
                    Len(store'.dsets[ds].data)
                    = Min(ret.args.n_time, Min(ret.args.n_voltage, ret.args.n_current))]_vars

(***************************************************************************)
(* C20.  Unaligned-length repair: when length(time) mod samples_per_buffer *)
(* is not 0, IsValid logs the alignment warning and the repair truncates   *)
(* the datasets to floor(length / samples_per_buffer) *                    *)
(* samples_per_buffer; an aligned store gets no alignment warning and is   *)
(* not truncated.  The alignment check is reached with the store as the    *)
(* pass found it, the three lengths equal; the validation of the pass is   *)
(* the one the reader ran when it was constructed.                         *)
(***************************************************************************)
LengthsAre(n) == \A ds \in DOMAIN store.dsets : Len(store.dsets[ds].data) = n

MinDownsampled == 2
\* the longest source store of the downsampling family, in samples
MaxDownLen == 7

\* cli.py:204 has [5, 25, 100, 500, 2_500, 10_000, 50_000, 250_000, 1_000_000];
\* the model keeps an ascending list that fits its store lengths
ds_list_default == <<2, 3, 5>>

OptNone == [given |-> FALSE, value |-> 0]
Opt(v) == [given |-> TRUE, value |-> v]

\* the factor after the first if: derived from the sample rate when no factor is given
ds_factor_of(ds_factor, sample_rate) ==
    IF ~ds_factor.given /\ sample_rate.given /\ sample_rate.value >= 1
        THEN Opt(samplerate_sps_default \div sample_rate.value)
        ELSE ds_factor

\* the list of factors the command works through
ds_list_of(ds_factor, sample_rate) ==
    LET f == ds_factor_of(ds_factor, sample_rate)
    IN  IF f.given /\ f.value >= 1 THEN <<f.value>> ELSE ds_list_default

\* shpr.ds_time.shape[0] / _factor < 1000, without the floor
TooSmall_never(n, factor) == FALSE

\* shpr.ds_time.shape[0] / _factor < 1000
TooSmall(n, factor) == n < MinDownsampled * factor

\* ds_file.exists(), taken as never true
DerivedExists_never(s, factor) == FALSE

\* ds_file.exists() for ds_file = file.with_suffix(f".downsampled_x{round(_factor)}.h5")
DerivedExists(s, factor) == factor \in DOMAIN s.derived

\* the file the Writer block leaves: every factor-th raw sample of each channel, the
\* calibration attributes as they are, mode, datatype, window_samples and hostname of
\* the source, and the factor as an attribute
writer_downsampled(s, factor) ==
    [attrs |-> [mode |-> get_mode(s), hostname |-> get_hostname(s), ds_factor |-> factor],
     data_attrs |-> [datatype |-> get_datatype(s),
                     window_samples |-> get_window_samples(s)],
     dsets |-> [ds \in {"time", "voltage", "current"} |->
                   [s.dsets[ds] EXCEPT !.data = Strided(@, 0, Len(@), factor)]]]

\* the loop over ds_list from its i-th factor on: the store it leaves, its log and
\* the factors a Writer was opened for
RECURSIVE downsample_loop(_, _, _)
downsample_loop(s, ds_list, i) ==
    IF i > Len(ds_list)
        THEN [store |-> s, log |-> <<>>, written |-> <<>>]
    ELSE IF TooSmall(Len(ds_time(s)), ds_list[i])
        THEN [store |-> s,
              log |-> <<LogWarning("will skip downsampling", <<>>)>>,
              written |-> <<>>]
    ELSE IF DerivedExists(s, ds_list[i])
        THEN downsample_loop(s, ds_list, i + 1)
    ELSE LET file == writer_downsampled(s, ds_list[i])
             rest == downsample_loop(
                         [s EXCEPT !.derived = (ds_list[i] :> file) @@ @], ds_list, i + 1)
         IN  [store |-> rest.store,
              log |-> <<LogInfo("Downsampling", <<ds_list[i]>>)>> \o rest.log,
              written |-> <<ds_list[i]>> \o rest.written]

\* downsample(in_data, ds_factor, sample_rate) for in_data the path of one store
downsample(s, ds_factor, sample_rate) ==
    LET ds_list == ds_list_of(ds_factor, sample_rate)
        opened == OpenResult(s)
        loop == downsample_loop(s, ds_list, 1)
    IN  IF opened.reader.state # "open"
            THEN [store |-> s, reader |-> opened.reader, log |-> opened.log,
                  value |-> [error |-> opened.reader.error, ds_list |-> ds_list,
                             samplerate_sps |-> opened.reader.samplerate_sps,
                             written |-> <<>>]]
            ELSE [store |-> loop.store,
                  reader |-> ReaderExit(opened.reader),
                  log |-> opened.log \o loop.log,
                  value |-> [error |-> "none", ds_list |-> ds_list,
                             samplerate_sps |-> opened.reader.samplerate_sps,
                             written |-> loop.written]]

\* the values of --ds-factor and --sample-rate the model tries
DsFactors == {OptNone} \cup {Opt(f) : f \in 0..4}
SampleRates == {OptNone} \cup {Opt(r) : r \in {0, 25000, 30000, 50000, 60000, 100000, 200000}}

Downsample ==
    \E ds_factor \in DsFactors, sample_rate \in SampleRates :
        /\ store.exists
        /\ store' = downsample(store, ds_factor, sample_rate).store
        /\ reader' = downsample(store, ds_factor, sample_rate).reader
        /\ log' = downsample(store, ds_factor, sample_rate).log
        /\ ret' = [op |-> "downsample",
                   args |-> [ds_factor |-> ds_factor, sample_rate |-> sample_rate],
                   value |-> downsample(store, ds_factor, sample_rate).value]
        /\ UNCHANGED repair

\* a derived file something else wrote earlier
ForeignDerived == [foreign |-> TRUE]

\* recordings of 100,000 sps and of 50,000 sps, without derived files or with one
InitDown ==
    /\ \E n \in 0..MaxDownLen, k \in {1, 2}, pre \in {0, 2, 3} :
          store = MkStore("harvester", "ivsample", 0, GaplessTime(n, k * IntervalNs),
                          RampData(n, 1, 1), RampData(n, 1, 2), ReadCal)
                  @@ [derived |-> IF pre = 0 THEN <<>> ELSE (pre :> ForeignDerived)]
    /\ reader = ReaderInit
    /\ log = <<>>
    /\ ret = RetNone
    /\ repair = RepairIdle

NextDown == Downsample

SpecDown == InitDown /\ [][NextDown]_vars

\* the sample rate Open derives for the source store
NativeRate == ret.value.samplerate_sps

(***************************************************************************)
(* C21: the decimation factor derived from a target sample rate is         *)
(* round(native_rate / target_rate), native_rate being the source store's  *)
(* sample rate, for every target rate >= 1.                                *)
(***************************************************************************)
C21_FactorIsRoundedNativeRatio ==
    (/\ ret.op = "downsample"
     /\ ~ret.args.ds_factor.given
     /\ ret.args.sample_rate.given
     /\ ret.args.sample_rate.value >= 1)
        => ret.value.ds_list = <<RoundHalfEven(NativeRate, ret.args.sample_rate.value)>>

(***************************************************************************)
(* C22: downsampling creates no derived store when a factor F < 1 is       *)
(* requested, and none for a factor whose resulting length (source length  *)
(* / F) is below the floor; in both cases it only logs a warning and the   *)
(* file system is unchanged.                                               *)
(***************************************************************************)
SkipWarned(l) ==
    \E i \in 1..Len(l) : l[i].level = "warning" /\ l[i].msg = "will skip downsampling"

\* the command just run was given the factor f
RequestedFactor(r, f) == r.op = "downsample" /\ r.args.ds_factor = Opt(f)

BelowFloor(s, f) == Len(s.dsets["time"].data) < MinDownsampled * f

\* the statement as claimed
C22_NothingBelowOneOrFloor ==
    [][\A f \in 0..4 :
          (RequestedFactor(ret', f) /\ (f < 1 \/ BelowFloor(store, f)))
              => (store' = store /\ ret'.value.written = <<>> /\ SkipWarned(log'))]_vars

\* as the code has it: a requested factor below 1 counts as no factor, the default
\* list is worked through; a requested factor >= 1 below the floor creates nothing
C22_NothingBelowFloor ==
    [][\A f \in 0..4 :
          /\ (RequestedFactor(ret', f) /\ f >= 1 /\ BelowFloor(store, f))
                => (store' = store /\ ret'.value.written = <<>> /\ SkipWarned(log'))
          /\ (RequestedFactor(ret', f) /\ f < 1)
                => ret'.value.ds_list = ds_list_default]_vars

C22_Witness ==
    /\ RequestedFactor(ret, 2)
    /\ Len(store.dsets["time"].data) = 3
    /\ store.derived = <<>>
    /\ SkipWarned(log)

(***************************************************************************)
(* C23: downsampling is idempotent per factor: when the derived file for a *)
(* factor exists already, the command opens no writer for that factor and  *)
(* leaves the file as it is, while the derived files of the other factors  *)
(* of the list are still produced.                                         *)
(***************************************************************************)
WrittenFactors(r) == {r.value.written[i] : i \in 1..Len(r.value.written)}

C23_ExistingDerivedUntouched ==
    [][ret'.op = "downsample" =>
          /\ \A f \in DOMAIN store.derived :
                /\ f \in DOMAIN store'.derived
                /\ store'.derived[f] = store.derived[f]
                /\ f \notin WrittenFactors(ret')
          /\ \A i \in 1..Len(ret'.value.ds_list) :
                LET f == ret'.value.ds_list[i]
                IN  (~BelowFloor(store, f) /\ f \notin DOMAIN store.derived)
                        => /\ f \in WrittenFactors(ret')
                           /\ f \in DOMAIN store'.derived]_vars

\* the default list was worked through with the file of factor 2 in place: that file
\* is still the earlier one, the file of factor 3 was written
C23_Witness ==
    /\ ret.op = "downsample"
    /\ ret.value.ds_list = ds_list_default
    /\ 2 \in DOMAIN store.derived
    /\ store.derived[2] = ForeignDerived
    /\ ret.value.written = <<3>>
    /\ 3 \in DOMAIN store.derived

(***************************************************************************)
(* C24: in the repair procedure the reader is reopened after each          *)
(* corrective mutation and the writer is closed, so every later check of   *)
(* the pass (sizes, alignment, mode, datatype, window_samples, hostname)   *)
(* reads the store through an open handle.                                 *)
(***************************************************************************)
RepairChecks == {"sizes", "align", "mode", "datatype", "window", "hostname"}

C24_ChecksReadThroughOpenHandle ==
    repair.pc \in RepairChecks => (reader.state = "open" /\ repair.writer = "closed")

(***************************************************************************)
(* C25: label repair.  A mode outside {harvester, emulator} is replaced by *)
(* harvester if it contains "har", else by emulator if it contains "emu",  *)
(* else by harvester; a datatype not allowed for the mode is replaced by   *)
(* ivcurve if it contains "curv", else by ivsample.  A valid mode or       *)
(* datatype is never rewritten.                                            *)
(***************************************************************************)
ValidModes == {"harvester", "emulator"}

ExpectedMode(label) ==
    IF label \in {"harvester", "harvesting"} THEN "harvester"
    ELSE IF label \in {"emulator", "emulation"} THEN "emulator"
    ELSE "harvester"

ExpectedDatatype(label) == IF label \in {"ivcurve", "ivcurves"} THEN "ivcurve" ELSE "ivsample"

AllowedDatatypes(mode) ==
    IF mode = "harvester" THEN {"ivsample", "ivcurve", "isc_voc"} ELSE {"ivsample"}

ModeNow(s) == IF "mode" \in DOMAIN s.attrs THEN s.attrs["mode"] ELSE ""
DatatypeNow(s) == s.data_attrs["datatype"]

C25_LabelRepair ==
    [][/\ (repair.pc = "mode" /\ reader.state = "open" /\ ModeNow(store) \notin ValidModes)
            => repair'.fix = "mode"
       /\ (repair.pc = "datatype" /\ reader.state = "open"
           /\ DatatypeNow(store) \notin AllowedDatatypes(ModeNow(store)))
            => repair'.fix = "datatype"
       /\ (repair.fix = "mode" /\ repair.pc = "writer")
            => ModeNow(store') = ExpectedMode(ModeNow(store))
       /\ (repair.fix = "datatype" /\ repair.pc = "writer")
            => DatatypeNow(store') = ExpectedDatatype(DatatypeNow(store))
       /\ ModeNow(store') # ModeNow(store)
            => (ModeNow(store) \notin ValidModes /\ repair.fix = "mode")
       /\ DatatypeNow(store') # DatatypeNow(store)
            => (/\ DatatypeNow(store) \notin AllowedDatatypes(ModeNow(store))
                /\ repair.fix = "datatype")]_vars

\* second pass over a store that had mode "emulation": the mode is emulator now and
\* the legacy datatype was rewritten
C25_Witness ==
    /\ repair.run = 2
    /\ repair.pc = "enter"
    /\ repair.fix = "datatype"
    /\ ModeNow(store) = "emulator"
    /\ DatatypeNow(store) = "ivcurve"

(***************************************************************************)
(* C26: missing window_samples.  When the attribute is absent and the      *)
(* datatype is not ivcurve it is set to 0; when the datatype is ivcurve    *)
(* the repair is refused: no value is invented, the attribute stays absent *)
(* and the case is flagged.                                                *)
(***************************************************************************)
WindowAbsent(s) == "window_samples" \notin DOMAIN s.data_attrs

C26_WindowRepairOrRefusal ==
    [][/\ (repair.pc = "window" /\ reader.state = "open" /\ WindowAbsent(store))
            => IF DatatypeNow(store) = "ivcurve"
                   THEN repair'.fix = "refused" /\ repair'.pc = "done" /\ store' = store
                   ELSE repair'.fix = "window" /\ repair'.pc = "exit"
       /\ (repair.fix = "window" /\ repair.pc = "writer")
            => (~WindowAbsent(store') /\ store'.data_attrs["window_samples"] = 0)
       /\ repair.fix = "refused" => (WindowAbsent(store) /\ WindowAbsent(store'))
       /\ (WindowAbsent(store) /\ ~WindowAbsent(store'))
            => (repair.fix = "window" /\ DatatypeNow(store) # "ivcurve")
       /\ ~WindowAbsent(store) => store'.data_attrs["window_samples"]
                                      = store.data_attrs["window_samples"]]_vars

C26_Witness ==
    /\ repair.pc = "done"
    /\ repair.fix = "refused"
    /\ WindowAbsent(store)
    /\ DatatypeNow(store) = "ivcurve"

(***************************************************************************)
(* The validate command (shepherd_data/cli.py).  store is the directory    *)
(* the command is pointed at: the sequence of its entries as os.listdir    *)
(* returns them, each a regular file with or without the suffix ".h5".     *)
(* An exception that leaves the command ends the process with status 1.    *)
(***************************************************************************)
\* the most entries a directory of the model has
MaxFiles == 3

IsH5(entry) == entry.h5

\* path_to_flist(data_path) for a directory
path_to_flist(dir) == SelectSeq(dir.entries, IsH5)

\* the loop of validate from the i-th file on: the exit status, the exception that
\* ended it if one did, the files both checks were run on, the files reported
RECURSIVE validate_loop(_, _, _)
validate_loop(files, i, valid_dir) ==
    IF i > Len(files)
        THEN [exit |-> IF valid_dir THEN 0 ELSE 1, error |-> "none",
              examined |-> <<>>, log |-> <<>>]
    ELSE LET opened == OpenResult(files[i].content)
             valid_file == /\ is_valid(files[i].content).ok
                           /\ check_timediffs(files[i].content, opened.reader)
             rest == validate_loop(files, i + 1, valid_dir /\ valid_file)
         IN  IF opened.reader.state # "open"
                 THEN [exit |-> 1, error |-> opened.reader.error,
                       examined |-> <<>>, log |-> <<>>]
                 ELSE [exit |-> rest.exit, error |-> rest.error,
                       examined |-> <<i>> \o rest.examined,
                       log |-> (IF valid_file THEN <<>>
                                ELSE <<LogError("File was NOT valid", <<i>>)>>) \o rest.log]

\* validate(in_data)
validate(dir) == validate_loop(path_to_flist(dir), 1, TRUE)

Validate ==
    /\ ret.op = "none"
    /\ ret' = [op |-> "validate", args |-> <<>>, value |-> validate(store)]
    /\ log' = validate(store).log
    /\ UNCHANGED <<store, reader, repair>>

\* time values of two chunks with a jump of one buffer period after the first buffer
JumpRecording ==
    LET n == 2 * BuffersPerChunk * samples_per_buffer
    IN  MkStore("harvester", "ivsample", 0,
                JumpedTime(n, IntervalNs, samples_per_buffer, samples_per_buffer * IntervalNs),
                RampData(n, 1, 1), RampData(n, 1, 2), CalibrationSeriesDefault)

\* what a directory may hold: a sound recording, one without mode, one with a time
\* jump, one without the current dataset, one whose first two time values are equal,
\* and a file that is no recording
DirEntries ==
    {[h5 |-> TRUE, content |-> Recording("harvester", "ivsample", 0, 2)],
     [h5 |-> TRUE, content |-> ApplyDefect(Recording("harvester", "ivsample", 0, 2), "no_mode")],
     [h5 |-> TRUE, content |-> JumpRecording],
     [h5 |-> TRUE,
      content |-> ApplyDefect(Recording("harvester", "ivsample", 0, 2), "no_dset_current")],
     [h5 |-> TRUE,
      content |-> MkStore("harvester", "ivsample", 0, GaplessTime(samples_per_buffer, 0),
                          RampData(samples_per_buffer, 1, 1),
                          RampData(samples_per_buffer, 1, 2), CalibrationSeriesDefault)],
     [h5 |-> FALSE, content |-> [exists |-> TRUE]]}

InitValidate ==
    /\ \E n \in 0..MaxFiles : \E entries \in [1..n -> DirEntries] :
          store = [exists |-> TRUE, entries |-> entries]
    /\ reader = ReaderInit
    /\ log = <<>>
    /\ ret = RetNone
    /\ repair = RepairIdle

NextValidate == Validate

SpecValidate == InitValidate /\ [][NextValidate]_vars

(***************************************************************************)
(* C27: the validate command examines every discovered .h5 file, with no   *)
(* early exit after a failure, and exits with status 0 if and only if      *)
(* every file passes both is_valid and check_timediffs, else with status 1.*)
(***************************************************************************)
Discovered(dir) == {i \in 1..Len(dir.entries) : dir.entries[i].h5}

FilePasses(f) ==
    /\ OpenResult(f).reader.state = "open"
    /\ is_valid(f).ok
    /\ check_timediffs(f, OpenResult(f).reader)

C27_ExitCodeAggregates ==
    ret.op = "validate" =>
        /\ Len(ret.value.examined) = Cardinality(Discovered(store))
        /\ ret.value.exit \in {0, 1}
        /\ ret.value.exit = 0
              <=> \A i \in Discovered(store) : FilePasses(store.entries[i].content)

(***************************************************************************)
(* Fixtures.inheritance (data_models/model_fixture.py).  store is the      *)
(* fixture library: elements maps the names it holds to their entries, of  *)
(* which the model keeps the key inherit_from ("" when the entry has       *)
(* none).  A dict of values is [name, inherit_from], "" for an absent key. *)
(* One action starts the call, one follows each recursive call; the way    *)
(* back up the call stack only merges dicts and is left out.  ret.value    *)
(* holds the call in progress: its status, the values and the chain of the *)
(* innermost call, and its depth.  Names are lower case.                   *)
(***************************************************************************)
\* the interpreter's recursion limit (1000 frames by default), scaled down
MaxDepth == 5

FixtureNames == {"neutral", "a", "b"}
\* names a dict may refer to: those of the library and one it never holds
RefNames == FixtureNames \cup {"c"}

\* Fixtures.__getitem__: the entry, or None when the key is missing (the ValueError
\* is constructed, not raised)
getitem(lib, key) ==
    IF key \in DOMAIN lib.elements
        THEN [none |-> FALSE, inherit_from |-> lib.elements[key].inherit_from]
        ELSE [none |-> TRUE, inherit_from |-> ""]

\* one call inheritance(values, chain) at the given depth, up to its recursive call
inheritance_call(lib, values, chain, depth) ==
    IF depth > MaxDepth
        THEN [status |-> "raised", error |-> "RecursionError", values |-> values,
              chain |-> chain, depth |-> depth]
    ELSE IF values.inherit_from # ""
        THEN LET fixture_name == values.inherit_from
                 checked == values.name # "" /\ Len(chain) < 1
                 chain1 == IF checked THEN Append(chain, values.name) ELSE chain
                 fixture_base == getitem(lib, fixture_name)
             IN  IF checked /\ (values.name \in SeqToSet(chain) \/ values.name = fixture_name)
                     THEN [status |-> "raised", error |-> "ValueError", values |-> values,
                           chain |-> chain, depth |-> depth]
                 ELSE IF fixture_base.none
                     THEN [status |-> "raised", error |-> "TypeError", values |-> values,
                           chain |-> chain1, depth |-> depth]
                 ELSE [status |-> "calling", error |-> "none",
                       values |-> [name |-> fixture_name,
                                   inherit_from |-> fixture_base.inherit_from],
                       chain |-> Append(chain1, fixture_name), depth |-> depth + 1]
    ELSE IF values.name # "" /\ values.name \in DOMAIN lib.elements
        THEN IF values.name = "neutral"
                 THEN [status |-> "returned", error |-> "none",
                       values |-> [name |-> "neutral",
                                   inherit_from |-> getitem(lib, "neutral").inherit_from],
                       chain |-> chain, depth |-> depth]
                 ELSE [status |-> "calling", error |-> "none",
                       values |-> [name |-> values.name,
                                   inherit_from |-> getitem(lib, values.name).inherit_from],
                       chain |-> Append(chain, values.name), depth |-> depth + 1]
    ELSE [status |-> "returned", error |-> "none", values |-> values,
          chain |-> chain, depth |-> depth]

\* inheritance(values): the outermost call
Inheritance ==
    \E name \in RefNames \cup {"", "x"}, inherit_from \in RefNames \cup {""} :
        /\ ret.op = "none"
        /\ ret' = [op |-> "inheritance",
                   args |-> [name |-> name, inherit_from |-> inherit_from],
                   value |-> inheritance_call(
                                 store, [name |-> name, inherit_from |-> inherit_from],
                                 <<>>, 1)]
        /\ UNCHANGED <<store, reader, log, repair>>

\* base_dict, chain = self.inheritance(values=fixture_base, chain=chain)
InheritanceRecurse ==
    /\ ret.op = "inheritance"
    /\ ret.value.status = "calling"
    /\ ret' = [ret EXCEPT !.value = inheritance_call(store, ret.value.values,
                                                     ret.value.chain, ret.value.depth)]
    /\ UNCHANGED <<store, reader, log, repair>>

\* the fixture libraries: any of the names, each with or without inherit_from
FixtureEntries == {[inherit_from |-> n] : n \in RefNames \cup {""}}

InitFix ==
    /\ \E held \in SUBSET FixtureNames : \E elements \in [held -> FixtureEntries] :
          store = [exists |-> TRUE, elements |-> elements]
    /\ reader = ReaderInit
    /\ log = <<>>
    /\ ret = RetNone
    /\ repair = RepairIdle

NextFix == Inheritance \/ InheritanceRecurse

SpecFix == InitFix /\ [][NextFix]_vars

(***************************************************************************)
(* C28: fixture inheritance resolution terminates on every library: a      *)
(* circular inherit_from chain of any length, also one among library       *)
(* entries only, is detected through the chain of visited names and raises *)
(* an error instead of recursing without bound.                            *)
(***************************************************************************)
NoRevisit(chain) == \A i, j \in 1..Len(chain) : chain[i] = chain[j] => i = j

C28_CirclesDetected ==
    ret.op = "inheritance" =>
        /\ ret.value.error # "RecursionError"
        /\ ret.value.status \in {"calling", "returned"} => NoRevisit(ret.value.chain)

(***************************************************************************)
(* Open on stores whose first two time values are anything: equal,         *)
(* increasing, decreasing, more than a second apart.                       *)
(***************************************************************************)
\* the longest store of this family, in samples
MaxRateLen == 3

FirstTimeValues == {0, IntervalNs, 2 * IntervalNs, 3 * IntervalNs, 2 * NanosPerSecond}

\* n time values: t1, t2, and from there on one every IntervalNs
TimeFrom(n, t1, t2) == [i \in 1..n |-> IF i = 1 THEN t1 ELSE t2 + (i - 2) * IntervalNs]

InitRate ==
    /\ \E n \in 0..MaxRateLen, t1 \in FirstTimeValues, t2 \in FirstTimeValues :
          store = MkStore("harvester", "ivsample", 0, TimeFrom(n, t1, t2),
                          RampData(n, 1, 1), RampData(n, 1, 2), CalibrationSeriesDefault)
    /\ reader = ReaderInit
    /\ log = <<>>
    /\ ret = RetNone
    /\ repair = RepairIdle

NextRate == Open \/ IsValid

SpecRate == InitRate /\ [][NextRate]_vars

(***************************************************************************)
(* C29: the rate derivation of Open is total.  For every store with two or *)
(* more time samples, whatever the first two values are, Open completes    *)
(* without an arithmetic error with samplerate_sps >= 1 and a positive     *)
(* sample interval; with fewer than two samples the defaults are kept; the *)
(* data rate is 0 whenever the runtime is 0.                               *)
(***************************************************************************)
C29_RateDerivationTotal ==
    (ret.op = "open" \/ reader.state # "init") =>
        /\ reader.error = "none"
        /\ reader.state = "open"
        /\ reader.samplerate_sps >= 1
        /\ Len(store.dsets["time"].data) < 2
              => (/\ reader.samplerate_sps = 100000
                  /\ reader.sample_interval_ns = 10000)
        /\ reader.runtime_ds = 0 => reader.data_rate.num = 0

(***************************************************************************)
(* C30: repair reaches a valid store.  Whatever combination of unequal     *)
(* lengths, unaligned length, legacy or missing mode, legacy datatype,     *)
(* missing window_samples with data that is not ivcurve, and missing       *)
(* hostname the store starts with, when the pass over it has ended without *)
(* refusing, is_valid returns true for the store, its three channels have  *)
(* the same buffer-aligned length, and its hostname is set.                *)
(***************************************************************************)
PassEnded == repair.pc \in {"done", "crashed"} /\ repair.fix # "refused"

EqualAligned(s) ==
    /\ Len(s.dsets["time"].data) = Len(s.dsets["voltage"].data)
    /\ Len(s.dsets["time"].data) = Len(s.dsets["current"].data)
    /\ Len(s.dsets["time"].data) % samples_per_buffer = 0

C30_RepairReachesValid ==
    PassEnded =>
        /\ is_valid(store).ok
        /\ EqualAligned(store)
        /\ "hostname" \in DOMAIN store.attrs

====
